---- MODULE Spec2Model ----
(***************************************************************************)
(* Squirel OS: the keyboard decoder, the VGA text console, the shell's     *)
(* line editor and the code that drives them, as state machines.           *)
(*                                                                         *)
(*   SpecVga    the console driver under its public operations             *)
(*   SpecScroll the last row of a full screen written cell by cell         *)
(*   SpecKbd    the scancode decoder and the blocking keyboard_getchar     *)
(*   SpecKbdInit keyboard_init against the keyboard controller             *)
(*   SpecShell  shell_readline, fed by the decoder, echoing to the console *)
(*   SpecParse  parser_parse applied to command lines                       *)
(*   SpecReg    the command registry under registrations and lookups        *)
(*   SpecRepl   shell_run: prompt, line editor, shell_execute, the handlers *)
(*   SpecScript shell_run fed longer key scripts                            *)
(*   SpecColor  cmd_color called with argument vectors                      *)
(*   SpecAlt    two runs of the decoder, streams differing by alt codes     *)
(***************************************************************************)
EXTENDS Integers, Sequences, FiniteSets, TLC

(***************************************************************************)
(* Program constants                                                       *)
(***************************************************************************)
VGA_WIDTH == 80
VGA_HEIGHT == 25
KEY_NONE == 0
KEY_BACKSPACE == 8
KEY_ENTER == 10
KEY_SPECIAL == 256
VGA_BLACK == 0
VGA_LIGHT_GRAY == 7
SHELL_MAX_CMD_LEN == 256
SHELL_MAX_ARGS == 16
MAX_COMMANDS == 32

(***************************************************************************)
(* Bounds of the model                                                     *)
(***************************************************************************)
\* console operations explored from vga_init in SpecVga
MaxOps == 3
\* the largest maxlen shell_readline is called with in SpecShell
MaxLen == 4
\* the longest command line tried byte by byte in SpecParse
MaxStr == 4
\* shell_register_command calls explored from each registry SpecReg starts in
MaxRegs == 2
\* lines the user types in SpecRepl
MaxLines == 2
\* scancodes the keyboard sends on its own in SpecKbdInit
MaxKeys == 2
\* calls of cmd_color made one after the other in SpecColor
MaxCalls == 2

\* scancodes given to the two runs of the decoder in SpecAlt
MaxStream == 4

VARIABLES
    \* drivers/vga/vga_text.c
    vga_buffer,     \* the grid of 16-bit entries, row by row: the entry at
                    \* index i of the C array is vga_buffer[i \div 80 + 1][i % 80 + 1]
    cursor_x,       \* software cursor column
    cursor_y,       \* software cursor row
    current_attr,   \* attribute byte for the cells written next
    crt_index,      \* CRT controller index register (port 0x3D4)
    crt_regs,       \* CRT controller registers (port 0x3D5), by index
    \* history of the console, kept for the properties
    vga_op,         \* the last public console operation and its arguments
    vga_scrolls,    \* vga_scroll calls made by the last step
    vga_puts,       \* vga_putchar calls made by the last step
    vga_syncs,      \* vga_update_cursor calls made by the last step
    ops,            \* public console operations done so far
    \* drivers/keyboard/keyboard.c
    shift_pressed,
    ctrl_pressed,
    alt_pressed,
    gc_pc,          \* keyboard_getchar: "idle", "spin" (in its loop), "ret"
    gc_ret,         \* keyboard_getchar: the value it returned last
    \* history of the decoder, kept for the properties
    kb_scancode,    \* what keyboard_read_scancode returned to the last decode
    kb_result,      \* what the last keyboard_getchar_nonblock returned
    last_shift,     \* the most recent scancode with base code 0x2A or 0x36, 0 if none
    last_ctrl,      \* the most recent scancode with base code 0x1D, 0 if none
    last_alt,       \* the most recent scancode with base code 0x38, 0 if none
    shift_held,     \* the Shift codes whose make code had no break code since
    probe,          \* a decoder state and a scancode, fixed for the run
    probe_first,    \* the outcome of the first decode of probe, <<>> before it
    probe_last,     \* the outcome of the latest decode of probe, <<>> before it
    probe_hits,     \* decodes of probe so far, counted up to 2
    \* shell/shell.c: shell_readline
    rl_pc,          \* "idle", "loop" (waiting in keyboard_getchar), "ret"
    rl_maxlen,      \* the maxlen it was called with
    rl_pos,         \* its local pos
    rl_buffer,      \* the caller's memory from buffer[0] on; Uninit where unwritten
    rl_ret,         \* the count it returned
    \* history of the line editor, kept for the properties
    rl_line,        \* the key events of this call, folded as the editor is specified
    \* shell/parser/parser.c: one call of parser_parse
    par_pc,         \* "call" (about to run), "ret" (returned)
    par_cmdline,    \* the argument cmdline: NULL or a reference to a string
    par_cmd,        \* the argument cmd: NULL or a reference to a parsed_cmd_t
    par_ret,        \* what the call returned
    \* shell/shell.c: the command table
    commands,       \* the array of entries, commands[i] at commands[i + 1]
    num_commands,
    \* history of the command table, kept for the properties
    reg_op,         \* the last operation on the table and its arguments
    find_ret,       \* what shell_find_command returned, if it was the last operation
    regs,           \* shell_register_command calls made so far
    \* shell/shell.c: shell_run
    sh_pc,          \* "init", "prompt" (top of the loop), "read" (in
                    \* shell_readline), "execute" (before shell_execute)
    kb_pending,     \* the scancodes the keyboard still has to deliver
    \* history of shell_run, kept for the properties
    sh_calls,       \* the handlers the last shell_execute called, with arguments
    sh_out,         \* the console calls of the last step of shell_run
    exec_line,      \* the line the last shell_execute was given, NULL before it
    sh_lines,       \* lines the user has typed or started to type
    \* keyboard_init and the keyboard controller at ports 0x60 and 0x64
    ki_pc,          \* keyboard_init: the port access it makes next, "off", "done"
    ctl_out,        \* the bytes waiting at the data port, oldest first
    ctl_in,         \* the write the controller has not taken yet, as <<port, byte>>
    ki_keys,        \* scancodes the keyboard has sent since the reset
    \* history of keyboard_init, kept for the properties
    io_log,         \* its port accesses, <<kind, port, byte>>, a repeated poll once
    \* a second run of the decoder, on a scancode stream of its own
    kb_twin         \* its flags, and the events of the two runs other than KEY_NONE

vgaVars == <<vga_buffer, cursor_x, cursor_y, current_attr, crt_index, crt_regs>>

vgaHist == <<vga_op, vga_scrolls, vga_puts, vga_syncs, ops>>

kbdVars == <<shift_pressed, ctrl_pressed, alt_pressed>>

kbdHist == <<kb_scancode, kb_result, last_shift, last_ctrl, last_alt, shift_held>>

gcVars == <<gc_pc, gc_ret>>

probeVars == <<probe, probe_first, probe_last, probe_hits>>

rlVars == <<rl_pc, rl_maxlen, rl_pos, rl_buffer, rl_ret>>

rlHist == <<rl_line>>

parVars == <<par_pc, par_cmdline, par_cmd, par_ret>>

\* the state of the shell above the line editor
regVars == <<commands, num_commands>>

regHist == <<reg_op, find_ret, regs>>

replVars == <<sh_pc, kb_pending>>

replHist == <<sh_calls, sh_out, exec_line, sh_lines>>

ctlVars == <<ki_pc, ctl_out, ctl_in, ki_keys, io_log>>

twinVars == <<kb_twin>>

coreVars == <<parVars, regVars, regHist, replVars, replHist, ctlVars, twinVars>>

vars == <<vgaVars, vgaHist, kbdVars, kbdHist, gcVars, probeVars, rlVars, rlHist,
          coreVars>>

(***************************************************************************)
(* C integer conversions                                                   *)
(***************************************************************************)
\* a byte read as the (signed, x86-64) char it is passed as
ToChar(b) == IF b % 256 >= 128 THEN (b % 256) - 256 ELSE b % 256

ToU8(n) == n % 256

ToU16(n) == n % 65536

(***************************************************************************)
(* drivers/vga/vga_text.c                                                  *)
(***************************************************************************)
\* vga_buffer[i], read and written, on the grid kept row by row
CellAt(buf, i) == buf[(i \div VGA_WIDTH) + 1][(i % VGA_WIDTH) + 1]

WriteCell(buf, i, entry) ==
    [buf EXCEPT ![(i \div VGA_WIDTH) + 1][(i % VGA_WIDTH) + 1] = entry]

\* a grid holding the same entry in every cell
FilledGrid(entry) == [r \in 1 .. VGA_HEIGHT |-> [c \in 1 .. VGA_WIDTH |-> entry]]

\* the console state as one value: the driver's statics and the CRT registers
Con ==
    [buf |-> vga_buffer, x |-> cursor_x, y |-> cursor_y, attr |-> current_attr,
     idx |-> crt_index, regs |-> crt_regs, scrolls |-> 0, puts |-> 0,
     syncs |-> 0]

\* (uint8_t)((bg << 4) | (fg & 0x0F)), for fg, bg >= 0
vga_make_attr(fg, bg) == ToU8(bg * 16 + (fg % 16))

\* (uint16_t)c | ((uint16_t)attr << 8); a negative char sign-extends over the
\* attribute byte
vga_make_entry(c, attr) ==
    IF c >= 0 THEN c + attr * 256 ELSE 65280 + (c + 256)

\* outb to the CRT controller: 0x3D4 selects, 0x3D5 writes the selected one
outb(con, port, val) ==
    IF port = 980 THEN [con EXCEPT !.idx = val]
    ELSE IF port = 981 THEN [con EXCEPT !.regs = [@ EXCEPT ![con.idx] = val]]
    ELSE con

vga_update_cursor(con) ==
    LET pos == ToU16(con.y * VGA_WIDTH + con.x)
        c1 == outb(con, 980, 15)
        c2 == outb(c1, 981, pos % 256)
        c3 == outb(c2, 980, 14)
    IN  [outb(c3, 981, (pos \div 256) % 256) EXCEPT !.syncs = @ + 1]

\* vga_clear leaving the cursor where it was
vga_clear_keeps_cursor(con) ==
    LET blank == vga_make_entry(32, con.attr)
    IN  vga_update_cursor([con EXCEPT !.buf = FilledGrid(blank)])

vga_clear(con) ==
    LET blank == vga_make_entry(32, con.attr)
    IN  vga_update_cursor([con EXCEPT !.buf = FilledGrid(blank),
                                      !.x = 0, !.y = 0])

vga_cursor_enable(con, enable) ==
    IF enable
    THEN outb(outb(outb(outb(con, 980, 10), 981, 14), 980, 11), 981, 15)
    ELSE outb(outb(con, 980, 10), 981, 32)

vga_init(con) ==
    vga_cursor_enable(
        vga_clear([con EXCEPT !.attr = vga_make_attr(VGA_LIGHT_GRAY, VGA_BLACK)]),
        TRUE)

\* vga_set_color that also gives every cell of the grid the new attribute
vga_set_color_repaints(con, fg, bg) ==
    [con EXCEPT !.attr = vga_make_attr(fg, bg),
                !.buf = [r \in 1 .. VGA_HEIGHT |->
                            [c \in 1 .. VGA_WIDTH |->
                                 (con.buf[r][c] % 256) + vga_make_attr(fg, bg) * 256]]]

vga_set_color(con, fg, bg) == [con EXCEPT !.attr = vga_make_attr(fg, bg)]

\* vga_scroll with the second loop one cell short: the last cell keeps its entry
vga_scroll_last_cell_kept(con) ==
    LET blank == vga_make_entry(32, con.attr)
    IN  [con EXCEPT
            !.buf = [r \in 1 .. VGA_HEIGHT |->
                        IF r <= VGA_HEIGHT - 1
                        THEN con.buf[r + 1]
                        ELSE [c \in 1 .. VGA_WIDTH |->
                                  IF c < VGA_WIDTH THEN blank ELSE con.buf[r][c]]],
            !.scrolls = @ + 1]

\* vga_scroll clearing the last row in light gray on black
vga_scroll_default_blank(con) ==
    LET blank == vga_make_entry(32, vga_make_attr(VGA_LIGHT_GRAY, VGA_BLACK))
    IN  [con EXCEPT
            !.buf = [r \in 1 .. VGA_HEIGHT |->
                        IF r <= VGA_HEIGHT - 1
                        THEN con.buf[r + 1] ELSE [c \in 1 .. VGA_WIDTH |-> blank]],
            !.scrolls = @ + 1]

\* the first loop copies cell i + 80 to cell i for i < 24 * 80, in rising
\* order, which moves row r + 1 to row r; the second fills row 24
vga_scroll(con) ==
    LET blank == vga_make_entry(32, con.attr)
    IN  [con EXCEPT
            !.buf = [r \in 1 .. VGA_HEIGHT |->
                        IF r <= VGA_HEIGHT - 1
                        THEN con.buf[r + 1] ELSE [c \in 1 .. VGA_WIDTH |-> blank]],
            !.scrolls = @ + 1]

\* the switch with a backspace that stops at column 0 of every row
vga_putchar_switch_backspace_stays_on_row(con, c) ==
    CASE c = 10 -> [con EXCEPT !.x = 0, !.y = @ + 1]
      [] c = 13 -> [con EXCEPT !.x = 0]
      [] c = 9  ->
            \* (cursor_x + 8) & ~7
            LET nx == ((con.x + 8) \div 8) * 8
            IN  IF nx >= VGA_WIDTH
                THEN [con EXCEPT !.x = 0, !.y = @ + 1]
                ELSE [con EXCEPT !.x = nx]
      [] c = 8  ->
            IF con.x > 0 THEN [con EXCEPT !.x = @ - 1]
            ELSE con
      [] OTHER ->
            IF c >= 32
            THEN LET offset == con.y * VGA_WIDTH + con.x
                     w == [con EXCEPT !.buf = WriteCell(@, offset,
                                                 vga_make_entry(c, con.attr)),
                                      !.x = @ + 1]
                 IN  IF w.x >= VGA_WIDTH
                     THEN [w EXCEPT !.x = 0, !.y = @ + 1]
                     ELSE w
            ELSE con

\* the switch with a tab that wraps only past column 80
vga_putchar_switch_tab_wraps_late(con, c) ==
    CASE c = 10 -> [con EXCEPT !.x = 0, !.y = @ + 1]
      [] c = 13 -> [con EXCEPT !.x = 0]
      [] c = 9  ->
            \* (cursor_x + 8) & ~7
            LET nx == ((con.x + 8) \div 8) * 8
            IN  IF nx > VGA_WIDTH
                THEN [con EXCEPT !.x = 0, !.y = @ + 1]
                ELSE [con EXCEPT !.x = nx]
      [] c = 8  ->
            IF con.x > 0 THEN [con EXCEPT !.x = @ - 1]
            ELSE IF con.y > 0 THEN [con EXCEPT !.y = @ - 1, !.x = VGA_WIDTH - 1]
            ELSE con
      [] OTHER ->
            IF c >= 32
            THEN LET offset == con.y * VGA_WIDTH + con.x
                     w == [con EXCEPT !.buf = WriteCell(@, offset,
                                                 vga_make_entry(c, con.attr)),
                                      !.x = @ + 1]
                 IN  IF w.x >= VGA_WIDTH
                     THEN [w EXCEPT !.x = 0, !.y = @ + 1]
                     ELSE w
            ELSE con

\* the switch of vga_putchar: the cursor and the cell it writes
vga_putchar_switch(con, c) ==
    CASE c = 10 -> [con EXCEPT !.x = 0, !.y = @ + 1]
      [] c = 13 -> [con EXCEPT !.x = 0]
      [] c = 9  ->
            \* (cursor_x + 8) & ~7
            LET nx == ((con.x + 8) \div 8) * 8
            IN  IF nx >= VGA_WIDTH
                THEN [con EXCEPT !.x = 0, !.y = @ + 1]
                ELSE [con EXCEPT !.x = nx]
      [] c = 8  ->
            IF con.x > 0 THEN [con EXCEPT !.x = @ - 1]
            ELSE IF con.y > 0 THEN [con EXCEPT !.y = @ - 1, !.x = VGA_WIDTH - 1]
            ELSE con
      [] OTHER ->
            IF c >= 32
            THEN LET offset == con.y * VGA_WIDTH + con.x
                     w == [con EXCEPT !.buf = WriteCell(@, offset,
                                                 vga_make_entry(c, con.attr)),
                                      !.x = @ + 1]
                 IN  IF w.x >= VGA_WIDTH
                     THEN [w EXCEPT !.x = 0, !.y = @ + 1]
                     ELSE w
            ELSE con

\* vga_putchar updating the hardware cursor before the scroll test
vga_putchar_sync_before_scroll(con, b) ==
    LET s == vga_update_cursor([vga_putchar_switch(con, ToChar(b)) EXCEPT !.puts = @ + 1])
    IN  IF s.y >= VGA_HEIGHT
        THEN [vga_scroll(s) EXCEPT !.y = VGA_HEIGHT - 1]
        ELSE s

\* vga_putchar making the scroll test before the switch instead of after it
vga_putchar_scroll_test_first(con, b) ==
    LET t == IF con.y >= VGA_HEIGHT
             THEN [vga_scroll(con) EXCEPT !.y = VGA_HEIGHT - 1]
             ELSE con
        s == vga_putchar_switch(t, ToChar(b))
    IN  vga_update_cursor([s EXCEPT !.puts = @ + 1])

\* vga_putchar scrolling without setting cursor_y back to the last row
vga_putchar_row_not_pinned(con, b) ==
    LET s == vga_putchar_switch(con, ToChar(b))
        t == IF s.y >= VGA_HEIGHT THEN vga_scroll(s) ELSE s
    IN  vga_update_cursor([t EXCEPT !.puts = @ + 1])

\* vga_putchar(char c); b is the byte passed
vga_putchar(con, b) ==
    LET s == vga_putchar_switch(con, ToChar(b))
        t == IF s.y >= VGA_HEIGHT
             THEN [vga_scroll(s) EXCEPT !.y = VGA_HEIGHT - 1]
             ELSE s
    IN  vga_update_cursor([t EXCEPT !.puts = @ + 1])

RECURSIVE vga_print(_, _)
vga_print(con, str) ==
    IF str = <<>> THEN con
    ELSE vga_print(vga_putchar(con, Head(str)), Tail(str))

vga_println(con, str) == vga_putchar(vga_print(con, str), 10)

vga_set_cursor(con, x, y) ==
    IF x >= 0 /\ x < VGA_WIDTH /\ y >= 0 /\ y < VGA_HEIGHT
    THEN vga_update_cursor([con EXCEPT !.x = x, !.y = y])
    ELSE con

\* the console after power-on, before vga_init: the statics as initialised,
\* the grid and the CRT registers as yet unwritten
ConReset ==
    [buf |-> FilledGrid(0), x |-> 0, y |-> 0, attr |-> 7,
     idx |-> 0, regs |-> [r \in {10, 11, 14, 15} |-> 0], scrolls |-> 0,
     puts |-> 0, syncs |-> 0]

InitCon(con) ==
    /\ vga_buffer = con.buf
    /\ cursor_x = con.x
    /\ cursor_y = con.y
    /\ current_attr = con.attr
    /\ crt_index = con.idx
    /\ crt_regs = con.regs

SetCon(con) ==
    /\ vga_buffer' = con.buf
    /\ cursor_x' = con.x
    /\ cursor_y' = con.y
    /\ current_attr' = con.attr
    /\ crt_index' = con.idx
    /\ crt_regs' = con.regs

(***************************************************************************)
(* drivers/keyboard/keyboard.h: the key codes                              *)
(***************************************************************************)
KEY_F1 == KEY_SPECIAL + 59
KEY_F2 == KEY_SPECIAL + 60
KEY_F3 == KEY_SPECIAL + 61
KEY_F4 == KEY_SPECIAL + 62
KEY_F5 == KEY_SPECIAL + 63
KEY_F6 == KEY_SPECIAL + 64
KEY_F7 == KEY_SPECIAL + 65
KEY_F8 == KEY_SPECIAL + 66
KEY_F9 == KEY_SPECIAL + 67
KEY_F10 == KEY_SPECIAL + 68
KEY_F11 == KEY_SPECIAL + 87
KEY_F12 == KEY_SPECIAL + 88
KEY_UP == KEY_SPECIAL + 72
KEY_DOWN == KEY_SPECIAL + 80
KEY_LEFT == KEY_SPECIAL + 75
KEY_RIGHT == KEY_SPECIAL + 77
KEY_HOME == KEY_SPECIAL + 71
KEY_END == KEY_SPECIAL + 79
KEY_PAGEUP == KEY_SPECIAL + 73
KEY_PAGEDOWN == KEY_SPECIAL + 81
KEY_INSERT == KEY_SPECIAL + 82
KEY_DELETE == KEY_SPECIAL + 83

(***************************************************************************)
(* drivers/keyboard/keyboard.c                                             *)
(***************************************************************************)
\* indexed by scancode + 1
scancode_to_ascii_lower ==
    <<  0,  27,  49,  50,  51,  52,  53,  54,
       55,  56,  57,  48,  45,  61,   8,   9,
      113, 119, 101, 114, 116, 121, 117, 105,
      111, 112,  91,  93,  10,   0,  97, 115,
      100, 102, 103, 104, 106, 107, 108,  59,
       39,  96,   0,  92, 122, 120,  99, 118,
       98, 110, 109,  44,  46,  47,   0,  42,
        0,  32,   0,   0,   0,   0,   0,   0,
        0,   0,   0,   0,   0,   0,   0,  55,
       56,  57,  45,  52,  53,  54,  43,  49,
       50,  51,  48,  46,   0,   0,   0,   0,
        0,   0,   0,   0,   0,   0,   0,   0,
        0,   0,   0,   0,   0,   0,   0,   0,
        0,   0,   0,   0,   0,   0,   0,   0,
        0,   0,   0,   0,   0,   0,   0,   0,
        0,   0,   0,   0,   0,   0,   0,   0>>

scancode_to_ascii_upper ==
    <<  0,  27,  33,  64,  35,  36,  37,  94,
       38,  42,  40,  41,  95,  43,   8,   9,
       81,  87,  69,  82,  84,  89,  85,  73,
       79,  80, 123, 125,  10,   0,  65,  83,
       68,  70,  71,  72,  74,  75,  76,  58,
       34, 126,   0, 124,  90,  88,  67,  86,
       66,  78,  77,  60,  62,  63,   0,  42,
        0,  32,   0,   0,   0,   0,   0,   0,
        0,   0,   0,   0,   0,   0,   0,  55,
       56,  57,  45,  52,  53,  54,  43,  49,
       50,  51,  48,  46,   0,   0,   0,   0,
        0,   0,   0,   0,   0,   0,   0,   0,
        0,   0,   0,   0,   0,   0,   0,   0,
        0,   0,   0,   0,   0,   0,   0,   0,
        0,   0,   0,   0,   0,   0,   0,   0,
        0,   0,   0,   0,   0,   0,   0,   0>>

\* the decoder's statics and its return value as one value
Kbd ==
    [shift |-> shift_pressed, ctrl |-> ctrl_pressed, alt |-> alt_pressed,
     ret |-> KEY_NONE]

\* keyboard_has_key is status bit 0; without it no byte is read
keyboard_read_scancode(has_key, data) == IF ~has_key THEN 0 ELSE data

\* the second switch of keyboard_getchar_nonblock; KEY_NONE where it has no case
special_key(scancode) ==
    CASE scancode = 72 -> KEY_UP
      [] scancode = 80 -> KEY_DOWN
      [] scancode = 75 -> KEY_LEFT
      [] scancode = 77 -> KEY_RIGHT
      [] scancode = 71 -> KEY_HOME
      [] scancode = 79 -> KEY_END
      [] scancode = 73 -> KEY_PAGEUP
      [] scancode = 81 -> KEY_PAGEDOWN
      [] scancode = 82 -> KEY_INSERT
      [] scancode = 83 -> KEY_DELETE
      [] scancode = 59 -> KEY_F1
      [] scancode = 60 -> KEY_F2
      [] scancode = 61 -> KEY_F3
      [] scancode = 62 -> KEY_F4
      [] scancode = 63 -> KEY_F5
      [] scancode = 64 -> KEY_F6
      [] scancode = 65 -> KEY_F7
      [] scancode = 66 -> KEY_F8
      [] scancode = 67 -> KEY_F9
      [] scancode = 68 -> KEY_F10
      [] scancode = 87 -> KEY_F11
      [] scancode = 88 -> KEY_F12
      [] OTHER -> KEY_NONE

\* translate with the Ctrl fold one too low: Ctrl+A gives 0
translate_fold_unless_alt(kb, scancode) ==
    LET table == IF kb.shift THEN scancode_to_ascii_upper
                 ELSE scancode_to_ascii_lower
        c == table[scancode + 1]
    IN  IF c = 0 THEN KEY_NONE
        ELSE IF kb.ctrl /\ ~kb.alt /\ c >= 97 /\ c <= 122 THEN c - 97 + 1
        ELSE c

translate_fold_from_capital(kb, scancode) ==
    LET table == IF kb.shift THEN scancode_to_ascii_upper
                 ELSE scancode_to_ascii_lower
        c == table[scancode + 1]
    IN  IF c = 0 THEN KEY_NONE
        ELSE IF kb.ctrl /\ c >= 97 /\ c <= 122 THEN c - 65 + 1
        ELSE c

translate_fold_from_zero(kb, scancode) ==
    LET table == IF kb.shift THEN scancode_to_ascii_upper
                 ELSE scancode_to_ascii_lower
        c == table[scancode + 1]
    IN  IF c = 0 THEN KEY_NONE
        ELSE IF kb.ctrl /\ c >= 97 /\ c <= 122 THEN c - 97
        ELSE c

\* the translation at the end of keyboard_getchar_nonblock
translate(kb, scancode) ==
    LET table == IF kb.shift THEN scancode_to_ascii_upper
                 ELSE scancode_to_ascii_lower
        c == table[scancode + 1]
    IN  IF c = 0 THEN KEY_NONE
        ELSE IF kb.ctrl /\ c >= 97 /\ c <= 122 THEN c - 97 + 1
        ELSE c

\* decode_key without the test of the release bit
decode_key_release_kept(kb, scancode, released) ==
    IF special_key(scancode) # KEY_NONE
    THEN [kb EXCEPT !.ret = special_key(scancode)]
    ELSE [kb EXCEPT !.ret = translate(kb, scancode)]

\* decode_key with the translation tried before the switch of the special keys
decode_key_table_first(kb, scancode, released) ==
    IF released THEN [kb EXCEPT !.ret = KEY_NONE]
    ELSE IF translate(kb, scancode) # KEY_NONE
    THEN [kb EXCEPT !.ret = translate(kb, scancode)]
    ELSE [kb EXCEPT !.ret = special_key(scancode)]

\* keyboard_getchar_nonblock past its switch of the modifier keys
decode_key(kb, scancode, released) ==
    IF released THEN [kb EXCEPT !.ret = KEY_NONE]
    ELSE IF special_key(scancode) # KEY_NONE
    THEN [kb EXCEPT !.ret = special_key(scancode)]
    ELSE [kb EXCEPT !.ret = translate(kb, scancode)]

\* keyboard_getchar_nonblock with the Right Shift case missing
keyboard_getchar_nonblock_left_shift_only(kb, raw) ==
    IF raw = 0 THEN [kb EXCEPT !.ret = KEY_NONE]
    ELSE LET released == (raw \div 128) % 2 = 1
             scancode == raw % 128
         IN  CASE scancode = 42 ->
                      [kb EXCEPT !.shift = ~released, !.ret = KEY_NONE]
               [] scancode = 29 ->
                      [kb EXCEPT !.ctrl = ~released, !.ret = KEY_NONE]
               [] scancode = 56 ->
                      [kb EXCEPT !.alt = ~released, !.ret = KEY_NONE]
               [] OTHER -> decode_key(kb, scancode, released)

\* keyboard_getchar_nonblock dropping a make code that repeats the last byte read
keyboard_getchar_nonblock_no_repeat(kb, raw) ==
    IF raw = 0 \/ raw = kb_scancode THEN [kb EXCEPT !.ret = KEY_NONE]
    ELSE LET released == (raw \div 128) % 2 = 1
             scancode == raw % 128
         IN  CASE scancode \in {42, 54} ->
                      [kb EXCEPT !.shift = ~released, !.ret = KEY_NONE]
               [] scancode = 29 ->
                      [kb EXCEPT !.ctrl = ~released, !.ret = KEY_NONE]
               [] scancode = 56 ->
                      [kb EXCEPT !.alt = ~released, !.ret = KEY_NONE]
               [] OTHER -> decode_key(kb, scancode, released)

\* raw is what keyboard_read_scancode returned
keyboard_getchar_nonblock(kb, raw) ==
    IF raw = 0 THEN [kb EXCEPT !.ret = KEY_NONE]
    ELSE LET released == (raw \div 128) % 2 = 1
             scancode == raw % 128
         IN  CASE scancode \in {42, 54} ->
                      [kb EXCEPT !.shift = ~released, !.ret = KEY_NONE]
               [] scancode = 29 ->
                      [kb EXCEPT !.ctrl = ~released, !.ret = KEY_NONE]
               [] scancode = 56 ->
                      [kb EXCEPT !.alt = ~released, !.ret = KEY_NONE]
               [] OTHER -> decode_key(kb, scancode, released)

\* keyboard_shift_pressed returns the one flag both Shift keys write
keyboard_shift_pressed == shift_pressed

\* keyboard_getchar returning whatever the first decode gave
getchar_returns_at_once(c) == TRUE

\* keyboard_getchar leaves its loop when the decode is not KEY_NONE
getchar_returns(c) == c # KEY_NONE

InitKbd ==
    /\ shift_pressed = FALSE
    /\ ctrl_pressed = FALSE
    /\ alt_pressed = FALSE
    /\ kb_scancode = 0
    /\ kb_result = KEY_NONE
    /\ last_shift = 0
    /\ last_ctrl = 0
    /\ last_alt = 0
    /\ shift_held = {}
    /\ gc_pc = "idle"
    /\ gc_ret = KEY_NONE

\* one call of keyboard_getchar_nonblock reading raw, and what the history
\* variables record of it
Decode(raw) ==
    \E kb \in {keyboard_getchar_nonblock(Kbd, raw)} :
        LET hit == probe = <<shift_pressed, ctrl_pressed, alt_pressed, raw>>
            out == <<kb.ret, kb.shift, kb.ctrl, kb.alt>>
        IN  /\ shift_pressed' = kb.shift
            /\ ctrl_pressed' = kb.ctrl
            /\ alt_pressed' = kb.alt
            /\ kb_scancode' = raw
            /\ kb_result' = kb.ret
            /\ last_shift' = IF raw % 128 \in {42, 54} THEN raw ELSE last_shift
            /\ last_ctrl' = IF raw % 128 = 29 THEN raw ELSE last_ctrl
            /\ last_alt' = IF raw % 128 = 56 THEN raw ELSE last_alt
            /\ shift_held' = IF raw % 128 \notin {42, 54} THEN shift_held
                              ELSE IF raw < 128 THEN shift_held \cup {raw}
                              ELSE shift_held \ {raw % 128}
            /\ probe' = probe
            /\ probe_first' = IF hit /\ probe_first = <<>> THEN out ELSE probe_first
            /\ probe_last' = IF hit THEN out ELSE probe_last
            /\ probe_hits' = IF hit /\ probe_hits < 2 THEN probe_hits + 1
                              ELSE probe_hits

\* what keyboard_read_scancode can return: 0 with no byte pending, else the byte
Scancodes == {keyboard_read_scancode(h, d) : h \in BOOLEAN, d \in 0 .. 255}

\* the console is not part of a specification of the keyboard alone
NoConsole ==
    /\ vga_buffer = <<>>
    /\ cursor_x = 0
    /\ cursor_y = 0
    /\ current_attr = 7
    /\ crt_index = 0
    /\ crt_regs = <<>>
    /\ vga_op = <<>>
    /\ vga_scrolls = 0
    /\ vga_puts = 0
    /\ vga_syncs = 0
    /\ ops = 0

NoProbe ==
    /\ probe = <<>>
    /\ probe_first = <<>>
    /\ probe_last = <<>>
    /\ probe_hits = 0

\* shell_readline is not part of a specification of a driver alone
NoReadline ==
    /\ rl_pc = "idle"
    /\ rl_maxlen = 0
    /\ rl_pos = 0
    /\ rl_buffer = <<>>
    /\ rl_ret = 0
    /\ rl_line = <<>>

\* parser_parse is not called in a specification of a driver or of the editor
NoParser ==
    /\ par_pc = "idle"
    /\ par_cmdline = <<>>
    /\ par_cmd = <<>>
    /\ par_ret = FALSE

\* nothing of the shell above the line editor runs
\* the command table is not part of a specification of what lies below it
NoRegistry ==
    /\ commands = <<>>
    /\ num_commands = 0
    /\ reg_op = <<>>
    /\ find_ret = <<>>
    /\ regs = 0

\* shell_run is not part of a specification of what it calls
NoRepl ==
    /\ sh_pc = "off"
    /\ kb_pending = <<>>
    /\ sh_calls = <<>>
    /\ sh_out = <<>>
    /\ exec_line = <<>>
    /\ sh_lines = 0

\* keyboard_init is over, and the controller idle, where the decoder is given
\* its scancodes directly
NoKbdInit ==
    /\ ki_pc = "off"
    /\ ctl_out = <<>>
    /\ ctl_in = <<>>
    /\ ki_keys = 0
    /\ io_log = <<>>

\* no second run of the decoder
NoTwin ==
    kb_twin = [shift |-> FALSE, ctrl |-> FALSE, alt |-> FALSE, ret |-> KEY_NONE,
               out1 |-> <<>>, out2 |-> <<>>]

NoCore == NoParser /\ NoRegistry /\ NoRepl /\ NoKbdInit /\ NoTwin

(***************************************************************************)
(* SpecKbd: the decoder called directly, and keyboard_getchar around it    *)
(***************************************************************************)
KbdInit == InitKbd /\ NoConsole /\ NoProbe /\ NoReadline /\ NoCore

\* keyboard_getchar is called (again, once the caller has its last value)
KbdGetcharCall ==
    /\ gc_pc \in {"idle", "ret"}
    /\ gc_pc' = "spin"
    /\ gc_ret' = KEY_NONE
    /\ UNCHANGED <<vgaVars, vgaHist, kbdVars, kbdHist, probeVars, rlVars, rlHist,
                   coreVars>>

\* one iteration of the loop of keyboard_getchar: a call of
\* keyboard_getchar_nonblock, and the return when it gave a key
KbdGetcharPoll ==
    /\ gc_pc = "spin"
    /\ \E raw \in Scancodes : Decode(raw)
    /\ IF getchar_returns(kb_result')
       THEN gc_pc' = "ret" /\ gc_ret' = kb_result'
       ELSE UNCHANGED gcVars
    /\ UNCHANGED <<vgaVars, vgaHist, rlVars, rlHist, coreVars>>

KbdNext ==
    \/ KbdGetcharCall
    \/ KbdGetcharPoll

SpecKbd == KbdInit /\ [][KbdNext]_vars

(***************************************************************************)
(* SpecDet: keyboard_getchar_nonblock called directly, with one decoder    *)
(* state and scancode singled out (probe) and the outcomes of its decodes  *)
(* recorded                                                                *)
(***************************************************************************)
\* no byte, the modifiers' make and break codes, a letter's make and break
\* codes, a digit, Enter, Backspace, an arrow key, a code with no translation
ProbeCodes == {0, 42, 170, 54, 182, 29, 157, 56, 184, 30, 158, 2, 28, 14, 72, 90}

DetInit ==
    /\ InitKbd
    /\ NoConsole
    /\ NoReadline
    /\ NoCore
    /\ probe \in {<<s, c, a, raw>> : s \in BOOLEAN, c \in BOOLEAN, a \in BOOLEAN,
                                      raw \in ProbeCodes}
    /\ probe_first = <<>>
    /\ probe_last = <<>>
    /\ probe_hits = 0

DetNonblock ==
    /\ \E raw \in ProbeCodes : Decode(raw)
    /\ UNCHANGED <<vgaVars, vgaHist, gcVars, rlVars, rlHist, coreVars>>

DetNext == DetNonblock

SpecDet == DetInit /\ [][DetNext]_vars

(***************************************************************************)
(* shell/shell.c: shell_readline                                           *)
(***************************************************************************)
\* a byte of memory nothing has written
Uninit == -1

\* the locals of shell_readline, the caller's memory and the console as one value
Rl ==
    [pc |-> rl_pc, maxlen |-> rl_maxlen, pos |-> rl_pos, buffer |-> rl_buffer,
     ret |-> rl_ret, con |-> Con]

\* the loop test as pos < maxlen
shell_readline_loop_one_more(st) ==
    IF st.pos < st.maxlen
    THEN [st EXCEPT !.pc = "loop"]
    ELSE [st EXCEPT !.buffer = [@ EXCEPT ![st.pos] = 0], !.ret = st.pos,
                    !.pc = "ret"]

\* while (pos < maxlen - 1): wait for the next key, or terminate and return
shell_readline_loop(st) ==
    IF st.pos < st.maxlen - 1
    THEN [st EXCEPT !.pc = "loop"]
    ELSE [st EXCEPT !.buffer = [@ EXCEPT ![st.pos] = 0], !.ret = st.pos,
                    !.pc = "ret"]

\* the call: pos = 0, then the loop test (maxlen >= 1: maxlen - 1 is unsigned)
shell_readline(st, maxlen) ==
    shell_readline_loop([st EXCEPT !.maxlen = maxlen, !.pos = 0])

\* shell_readline_key taking every c >= ' ' as printable
shell_readline_key_no_upper_bound(st, c) ==
    IF c = 10 \/ c = KEY_ENTER
    THEN [st EXCEPT !.buffer = [@ EXCEPT ![st.pos] = 0],
                    !.con = vga_putchar(@, 10),
                    !.ret = st.pos, !.pc = "ret"]
    ELSE IF c = 8 \/ c = KEY_BACKSPACE
    THEN IF st.pos > 0
         THEN shell_readline_loop(
                  [st EXCEPT !.pos = @ - 1,
                             !.con = vga_putchar(vga_putchar(vga_putchar(@, 8), 32), 8)])
         ELSE shell_readline_loop(st)
    ELSE IF c >= 32
    THEN shell_readline_loop(
             [st EXCEPT !.buffer = [@ EXCEPT ![st.pos] = ToU8(c)],
                        !.pos = @ + 1,
                        !.con = vga_putchar(@, ToU8(c))])
    ELSE shell_readline_loop(st)

\* shell_readline_key storing and echoing a Tab as well
shell_readline_key_takes_tab(st, c) ==
    IF c = 10 \/ c = KEY_ENTER
    THEN [st EXCEPT !.buffer = [@ EXCEPT ![st.pos] = 0],
                    !.con = vga_putchar(@, 10),
                    !.ret = st.pos, !.pc = "ret"]
    ELSE IF c = 8 \/ c = KEY_BACKSPACE
    THEN IF st.pos > 0
         THEN shell_readline_loop(
                  [st EXCEPT !.pos = @ - 1,
                             !.con = vga_putchar(vga_putchar(vga_putchar(@, 8), 32), 8)])
         ELSE shell_readline_loop(st)
    ELSE IF (c >= 32 /\ c <= 126) \/ c = 9
    THEN shell_readline_loop(
             [st EXCEPT !.buffer = [@ EXCEPT ![st.pos] = ToU8(c)],
                        !.pos = @ + 1,
                        !.con = vga_putchar(@, ToU8(c))])
    ELSE shell_readline_loop(st)

\* shell_readline_key erasing without the last step back of the cursor
shell_readline_key_erase_cursor_ahead(st, c) ==
    IF c = 10 \/ c = KEY_ENTER
    THEN [st EXCEPT !.buffer = [@ EXCEPT ![st.pos] = 0],
                    !.con = vga_putchar(@, 10),
                    !.ret = st.pos, !.pc = "ret"]
    ELSE IF c = 8 \/ c = KEY_BACKSPACE
    THEN IF st.pos > 0
         THEN shell_readline_loop(
                  [st EXCEPT !.pos = @ - 1,
                             !.con = vga_putchar(vga_putchar(@, 8), 32)])
         ELSE shell_readline_loop(st)
    ELSE IF c >= 32 /\ c <= 126
    THEN shell_readline_loop(
             [st EXCEPT !.buffer = [@ EXCEPT ![st.pos] = ToU8(c)],
                        !.pos = @ + 1,
                        !.con = vga_putchar(@, ToU8(c))])
    ELSE shell_readline_loop(st)

\* shell_readline_key erasing on the console without the test pos > 0
shell_readline_key_erase_unguarded(st, c) ==
    IF c = 10 \/ c = KEY_ENTER
    THEN [st EXCEPT !.buffer = [@ EXCEPT ![st.pos] = 0],
                    !.con = vga_putchar(@, 10),
                    !.ret = st.pos, !.pc = "ret"]
    ELSE IF c = 8 \/ c = KEY_BACKSPACE
    THEN shell_readline_loop(
             [st EXCEPT !.pos = IF @ > 0 THEN @ - 1 ELSE @,
                        !.con = vga_putchar(vga_putchar(vga_putchar(@, 8), 32), 8)])
    ELSE IF c >= 32 /\ c <= 126
    THEN shell_readline_loop(
             [st EXCEPT !.buffer = [@ EXCEPT ![st.pos] = ToU8(c)],
                        !.pos = @ + 1,
                        !.con = vga_putchar(@, ToU8(c))])
    ELSE shell_readline_loop(st)

\* the body of the loop for the value c keyboard_getchar returned, then the
\* loop test again
shell_readline_key(st, c) ==
    IF c = 10 \/ c = KEY_ENTER
    THEN [st EXCEPT !.buffer = [@ EXCEPT ![st.pos] = 0],
                    !.con = vga_putchar(@, 10),
                    !.ret = st.pos, !.pc = "ret"]
    ELSE IF c = 8 \/ c = KEY_BACKSPACE
    THEN IF st.pos > 0
         THEN shell_readline_loop(
                  [st EXCEPT !.pos = @ - 1,
                             !.con = vga_putchar(vga_putchar(vga_putchar(@, 8), 32), 8)])
         ELSE shell_readline_loop(st)
    ELSE IF c >= 32 /\ c <= 126
    THEN shell_readline_loop(
             [st EXCEPT !.buffer = [@ EXCEPT ![st.pos] = ToU8(c)],
                        !.pos = @ + 1,
                        !.con = vga_putchar(@, ToU8(c))])
    ELSE shell_readline_loop(st)

SetRl(st) ==
    /\ rl_pc' = st.pc
    /\ rl_maxlen' = st.maxlen
    /\ rl_pos' = st.pos
    /\ rl_buffer' = st.buffer
    /\ rl_ret' = st.ret
    /\ vga_scrolls' = st.con.scrolls
    /\ vga_puts' = st.con.puts
    /\ vga_syncs' = st.con.syncs
    /\ SetCon(st.con)

(***************************************************************************)
(* The line editor as it is specified: the fold of the key events          *)
(***************************************************************************)
FoldKey(line, c) ==
    IF c >= 32 /\ c <= 126 THEN Append(line, c)
    ELSE IF c = KEY_BACKSPACE
    THEN (IF line = <<>> THEN line ELSE SubSeq(line, 1, Len(line) - 1))
    ELSE line

(***************************************************************************)
(* SpecShell: one call of shell_readline, its keys decoded from scancodes  *)
(***************************************************************************)
\* no byte; Shift and Ctrl, make and break; the key A, make and break; Enter,
\* Backspace, Tab, the Up arrow
ShellScancodes == {0, 42, 170, 29, 157, 30, 158, 28, 14, 15, 72}

\* where the cursor is when shell_readline is called: the top left corner,
\* after a prompt on the top row, and near the end of the top and bottom rows
ShellCursors == {<<0, 0>>, <<9, 0>>, <<78, 0>>, <<78, 24>>}

ReadlineLens == 1 .. MaxLen

ShellInit ==
    /\ InitKbd
    /\ NoProbe
    /\ \E xy \in ShellCursors :
           InitCon(vga_set_cursor(vga_init(ConReset), xy[1], xy[2]))
    /\ vga_op = <<>>
    /\ vga_scrolls = 0
    /\ vga_puts = 0
    /\ vga_syncs = 0
    /\ ops = 0
    /\ rl_pc = "idle"
    /\ rl_maxlen = 0
    /\ rl_pos = 0
    /\ rl_buffer = [i \in 0 .. MaxLen |-> Uninit]
    /\ rl_ret = 0
    /\ rl_line = <<>>
    /\ NoCore

\* shell_readline(buffer, maxlen) is called
ShellReadlineCall ==
    /\ rl_pc = "idle"
    /\ \E maxlen \in ReadlineLens : \E st \in {shell_readline(Rl, maxlen)} : SetRl(st)
    /\ rl_line' = <<>>
    /\ gc_pc' = "spin"
    /\ gc_ret' = KEY_NONE
    /\ UNCHANGED <<vga_op, ops, kbdVars, kbdHist, probeVars, coreVars>>

\* one iteration of the loop of keyboard_getchar, called from the loop of
\* shell_readline: a decode, and when it gave a key, the body of the loop
ShellReadlineKey ==
    /\ rl_pc = "loop"
    /\ \E raw \in ShellScancodes : Decode(raw)
    /\ IF getchar_returns(kb_result')
       THEN /\ \E st \in {shell_readline_key(Rl, kb_result')} :
                   /\ SetRl(st)
                   /\ gc_pc' = IF st.pc = "loop" THEN "spin" ELSE "ret"
            /\ gc_ret' = kb_result'
            /\ rl_line' = FoldKey(rl_line, kb_result')
       ELSE /\ vga_scrolls' = 0
            /\ vga_puts' = 0
            /\ vga_syncs' = 0
            /\ UNCHANGED <<vgaVars, rlVars, rlHist, gcVars>>
    /\ UNCHANGED <<vga_op, ops, coreVars>>

ShellNext ==
    \/ ShellReadlineCall
    \/ ShellReadlineKey

SpecShell == ShellInit /\ [][ShellNext]_vars

(***************************************************************************)
(* SpecVga: the console under its public operations, from vga_init         *)
(***************************************************************************)
\* bytes given to vga_putchar: the four control characters, an ignored
\* control character, printable ASCII, and bytes above 0x7F
PutBytes == {8, 9, 10, 13, 7, 65, 126, 200}

PrintStrings == {<<>>, <<72, 105>>, <<9, 10, 66>>}

CursorXs == {-1, 0, 7, 71, 72, 79, 80}

CursorYs == {-1, 0, 24, 25}

Colors == {<<VGA_LIGHT_GRAY, VGA_BLACK>>, <<14, 1>>}

VgaDo(op, after) ==
    /\ ops < MaxOps
    /\ ops' = ops + 1
    /\ vga_op' = op
    /\ \E con \in {after} :
           /\ vga_scrolls' = con.scrolls
           /\ vga_puts' = con.puts
           /\ vga_syncs' = con.syncs
           /\ SetCon(con)
    /\ UNCHANGED <<kbdVars, kbdHist, gcVars, probeVars, rlVars, rlHist, coreVars>>

VgaInit ==
    /\ InitCon(vga_init(ConReset))
    /\ vga_op = <<"vga_init">>
    /\ vga_scrolls = 0
    /\ vga_puts = 0
    /\ vga_syncs = 0
    /\ ops = 0
    /\ InitKbd
    /\ NoProbe
    /\ NoReadline
    /\ NoCore

VgaPutchar == \E b \in PutBytes : VgaDo(<<"vga_putchar", b>>, vga_putchar(Con, b))

VgaPrint == \E s \in PrintStrings : VgaDo(<<"vga_print", s>>, vga_print(Con, s))

VgaPrintln == \E s \in PrintStrings : VgaDo(<<"vga_println", s>>, vga_println(Con, s))

VgaClear == VgaDo(<<"vga_clear">>, vga_clear(Con))

VgaSetColor ==
    \E c \in Colors : VgaDo(<<"vga_set_color", c[1], c[2]>>, vga_set_color(Con, c[1], c[2]))

VgaScroll == VgaDo(<<"vga_scroll">>, vga_scroll(Con))

VgaSetCursor ==
    \E x \in CursorXs, y \in CursorYs :
        VgaDo(<<"vga_set_cursor", x, y>>, vga_set_cursor(Con, x, y))

VgaNext ==
    \/ VgaPutchar
    \/ VgaPrint
    \/ VgaPrintln
    \/ VgaClear
    \/ VgaSetColor
    \/ VgaScroll
    \/ VgaSetCursor

SpecVga == VgaInit /\ [][VgaNext]_vars

(***************************************************************************)
(* Pointers, arrays and the routines of lib/string and lib/memory that the *)
(* parser and the registry use                                             *)
(***************************************************************************)
\* a pointer is NULL or refers to an object
NULL == [null |-> TRUE]

Ref(x) == [null |-> FALSE, obj |-> x]

\* the byte at index i of an array (0 past the last byte ever written)
At(mem, i) == IF i >= 0 /\ i < Len(mem) THEN mem[i + 1] ELSE 0

\* mem[i] = v; a write past the end of the array lands in the memory after it,
\* which the array value then shows
Store(mem, i, v) ==
    IF i < Len(mem)
    THEN [mem EXCEPT ![i + 1] = v]
    ELSE [k \in 1 .. (i + 1) |->
              IF k <= Len(mem) THEN mem[k] ELSE IF k = i + 1 THEN v ELSE Uninit]

\* a string in memory: its bytes and the terminator
CString(s) == s \o <<0>>

\* the least and the greatest element of a set of integers
First(S) == CHOOSE x \in S : \A y \in S : x <= y

Last(S) == CHOOSE x \in S : \A y \in S : y <= x

\* while (str[len]) len++; from len on: the index of the first 0
strlen_from(str, len) == First({n \in len .. Len(str) : At(str, n) = 0})

strlen(str) == strlen_from(str, 0)

\* the string that starts at index i of an array, without its terminator
StringAt(mem, i) == [k \in 1 .. (strlen_from(mem, i) - i) |-> mem[i + k]]

isspace(c) == c = 32 \/ c = 9 \/ c = 10 \/ c = 13 \/ c = 12 \/ c = 11

\* the first n elements of dest set to c
memset(dest, c, n) ==
    [k \in 1 .. (IF n > Len(dest) THEN n ELSE Len(dest)) |->
         IF k <= n THEN c ELSE dest[k]]

\* the first n elements of dest set to those of src
memcpy(dest, src, n) ==
    [k \in 1 .. (IF n > Len(dest) THEN n ELSE Len(dest)) |->
         IF k <= n THEN src[k] ELSE dest[k]]

\* strcmp that stops at the end of s2: equal when s2 is a prefix of s1
strcmp_to_end_of_s2(s1, s2) ==
    LET i == First({n \in 0 .. Len(s1) :
                        ~(At(s2, n) # 0 /\ At(s1, n) # 0 /\ At(s1, n) = At(s2, n))})
    IN  IF At(s2, i) = 0 THEN 0 ELSE ToU8(At(s1, i)) - ToU8(At(s2, i))

\* while (*s1 && (*s1 == *s2)) both advance: i is the first index where the
\* loop stops
strcmp(s1, s2) ==
    LET i == First({n \in 0 .. Len(s1) : ~(At(s1, n) # 0 /\ At(s1, n) = At(s2, n))})
    IN  ToU8(At(s1, i)) - ToU8(At(s2, i))

(***************************************************************************)
(* shell/parser/parser.c                                                   *)
(***************************************************************************)
\* a parsed_cmd_t nothing has written: shell_execute's local before the call
UninitCmd ==
    [argc |-> Uninit,
     argv |-> [k \in 1 .. SHELL_MAX_ARGS |-> Uninit],
     buffer |-> [k \in 1 .. SHELL_MAX_CMD_LEN |-> Uninit]]

\* while (end >= str && isspace(*end)) { *end = 0; end--; }: the loop stops at
\* the last index up to end that holds no whitespace, or before the string,
\* and has written 0 at every index it passed
trim_loop(str, end) ==
    LET stop == Last({e \in (-1) .. end : e = -1 \/ ~isspace(ToChar(At(str, e)))})
    IN  [k \in 1 .. Len(str) |-> IF k - 1 > stop /\ k - 1 <= end THEN 0 ELSE str[k]]

parser_trim_trailing(str) ==
    IF At(str, 0) = 0 THEN str ELSE trim_loop(str, strlen(str) - 1)

\* while (*ptr && isspace(*ptr)) ptr++;
skip_whitespace(buffer, ptr) ==
    First({n \in ptr .. Len(buffer) :
               ~(At(buffer, n) # 0 /\ isspace(ToChar(At(buffer, n))))})

\* while (*ptr && !isspace(*ptr)) ptr++;
find_end(buffer, ptr) ==
    First({n \in ptr .. Len(buffer) :
               ~(At(buffer, n) # 0 /\ ~isspace(ToChar(At(buffer, n))))})

\* the loop with one whitespace character skipped before each argument
RECURSIVE parse_args_one_separator(_, _)
parse_args_one_separator(cmd, ptr) ==
    IF ~(At(cmd.buffer, ptr) # 0 /\ cmd.argc < SHELL_MAX_ARGS) THEN cmd
    ELSE LET start == IF isspace(ToChar(At(cmd.buffer, ptr))) THEN ptr + 1 ELSE ptr
         IN  IF At(cmd.buffer, start) = 0 THEN cmd
             ELSE LET found == [cmd EXCEPT !.argv = Store(@, cmd.argc, Ref(start)),
                                           !.argc = @ + 1]
                      end == find_end(cmd.buffer, start)
                  IN  IF At(cmd.buffer, end) # 0
                      THEN parse_args_one_separator(
                               [found EXCEPT !.buffer = Store(@, end, 0)], end + 1)
                      ELSE parse_args_one_separator(found, end)

\* the loop without the test argc < SHELL_MAX_ARGS
RECURSIVE parse_args_unbounded(_, _)
parse_args_unbounded(cmd, ptr) ==
    IF At(cmd.buffer, ptr) = 0 THEN cmd
    ELSE LET start == skip_whitespace(cmd.buffer, ptr)
         IN  IF At(cmd.buffer, start) = 0 THEN cmd
             ELSE LET found == [cmd EXCEPT !.argv = Store(@, cmd.argc, Ref(start)),
                                           !.argc = @ + 1]
                      end == find_end(cmd.buffer, start)
                  IN  IF At(cmd.buffer, end) # 0
                      THEN parse_args_unbounded(
                               [found EXCEPT !.buffer = Store(@, end, 0)], end + 1)
                      ELSE parse_args_unbounded(found, end)

\* the loop of parser_parse from ptr on; an argv entry refers to the index in
\* cmd->buffer where its argument starts
RECURSIVE parse_args(_, _)
parse_args(cmd, ptr) ==
    IF ~(At(cmd.buffer, ptr) # 0 /\ cmd.argc < SHELL_MAX_ARGS) THEN cmd
    ELSE LET start == skip_whitespace(cmd.buffer, ptr)
         IN  IF At(cmd.buffer, start) = 0 THEN cmd
             ELSE LET found == [cmd EXCEPT !.argv = Store(@, cmd.argc, Ref(start)),
                                           !.argc = @ + 1]
                      end == find_end(cmd.buffer, start)
                  IN  IF At(cmd.buffer, end) # 0
                      THEN parse_args([found EXCEPT !.buffer = Store(@, end, 0)],
                                      end + 1)
                      ELSE parse_args(found, end)

\* the length limit as len > SHELL_MAX_CMD_LEN, cut to SHELL_MAX_CMD_LEN
copy_len_off_by_one(len) ==
    IF len > SHELL_MAX_CMD_LEN THEN SHELL_MAX_CMD_LEN ELSE len

\* how many bytes of a line of len bytes are copied
copy_len(len) ==
    IF len >= SHELL_MAX_CMD_LEN THEN SHELL_MAX_CMD_LEN - 1 ELSE len

\* parser_parse failing on a line without arguments
parser_parse_fails_on_empty(cmdline, cmd) ==
    IF cmdline.null \/ cmd.null
    THEN [ret |-> FALSE, cmd |-> cmd]
    ELSE LET len == copy_len(strlen(cmdline.obj))
             cleared == [argc |-> 0,
                         argv |-> memset(cmd.obj.argv, NULL, SHELL_MAX_ARGS),
                         buffer |-> memset(cmd.obj.buffer, 0, SHELL_MAX_CMD_LEN)]
             copied == Store(memcpy(cleared.buffer, cmdline.obj, len), len, 0)
             parsed == parse_args(
                           [cleared EXCEPT !.buffer = parser_trim_trailing(copied)], 0)
         IN  [ret |-> parsed.argc > 0, cmd |-> Ref(parsed)]

\* parser_parse(cmdline, cmd): what it returns and what cmd refers to afterwards
parser_parse(cmdline, cmd) ==
    IF cmdline.null \/ cmd.null
    THEN [ret |-> FALSE, cmd |-> cmd]
    ELSE LET len == copy_len(strlen(cmdline.obj))
             cleared == [argc |-> 0,
                         argv |-> memset(cmd.obj.argv, NULL, SHELL_MAX_ARGS),
                         buffer |-> memset(cmd.obj.buffer, 0, SHELL_MAX_CMD_LEN)]
             copied == Store(memcpy(cleared.buffer, cmdline.obj, len), len, 0)
             parsed == parse_args(
                           [cleared EXCEPT !.buffer = parser_trim_trailing(copied)], 0)
         IN  [ret |-> TRUE, cmd |-> Ref(parsed)]

(***************************************************************************)
(* SpecParse: parser_parse applied to command lines, first into a          *)
(* parsed_cmd_t nothing has written, then again into the one it filled     *)
(***************************************************************************)
\* the letters a and b, the space and the tab
ParseBytes == {97, 98, 32, 9}

RECURSIVE Strings(_, _)
Strings(bytes, n) ==
    IF n = 0 THEN {<<>>}
    ELSE LET shorter == Strings(bytes, n - 1)
         IN  shorter \cup {Append(s, b) : s \in {t \in shorter : Len(t) = n - 1},
                                          b \in bytes}

\* s repeated n times
Rep(s, n) == [i \in 1 .. (n * Len(s)) |-> s[((i - 1) % Len(s)) + 1]]

\* every line of at most MaxStr bytes
ShortLines == Strings(ParseBytes, MaxStr)

\* lines around the capacities: 15 to 18 arguments of 1, 14, 15 or 16 bytes, and
\* one argument of 253 to 257 bytes
LongLines ==
    {lead \o Rep(Rep(<<97>>, k) \o sep, n) \o tail :
         lead \in {<<>>, <<32>>}, k \in {1, 14, 15, 16}, sep \in {<<32>>, <<9, 32>>},
         n \in 15 .. 18, tail \in {<<>>, <<98>>, <<98, 32, 32>>}}
    \cup {Rep(<<97>>, n) \o tail : n \in 253 .. 257,
                                   tail \in {<<>>, <<32>>, <<32, 98>>}}

\* "  echo   hi  "
EchoHiLine == <<32, 32, 101, 99, 104, 111, 32, 32, 32, 104, 105, 32, 32>>

ParseLines == ShortLines \cup LongLines \cup {EchoHiLine}

\* the lines parsed into a parsed_cmd_t that an earlier call filled
ReparseLines == {<<>>, <<97, 32, 98>>, Rep(<<97, 32>>, 17)}

ParseInit ==
    /\ InitKbd
    /\ NoConsole
    /\ NoProbe
    /\ NoReadline
    /\ par_pc = "call"
    /\ par_cmdline \in {NULL} \cup {Ref(CString(l)) : l \in ParseLines}
    /\ par_cmd \in {NULL, Ref(UninitCmd)}
    /\ par_ret = FALSE
    /\ NoRegistry
    /\ NoRepl
    /\ NoKbdInit
    /\ NoTwin

\* parser_parse runs and returns
ParserParse ==
    /\ par_pc = "call"
    /\ \E r \in {parser_parse(par_cmdline, par_cmd)} :
           /\ par_ret' = r.ret
           /\ par_cmd' = r.cmd
    /\ par_pc' = "ret"
    /\ UNCHANGED <<ctlVars, twinVars, par_cmdline, vgaVars, vgaHist, kbdVars, kbdHist, gcVars,
                   probeVars, rlVars, rlHist, regVars, regHist, replVars,
                   replHist>>

\* the caller calls again, with the parsed_cmd_t the last call left
ParserCall ==
    /\ par_pc = "ret"
    /\ par_cmdline' \in {Ref(CString(l)) : l \in ReparseLines}
    /\ par_pc' = "call"
    /\ UNCHANGED <<ctlVars, twinVars,
                   par_cmd, par_ret, vgaVars, vgaHist, kbdVars, kbdHist, gcVars,
                   probeVars, rlVars, rlHist, regVars, regHist, replVars,
                   replHist>>

ParseNext ==
    \/ ParserParse
    \/ ParserCall

SpecParse == ParseInit /\ [][ParseNext]_vars

(***************************************************************************)
(* shell/shell.c: the command table                                        *)
(***************************************************************************)
\* the table and its count as one value
Reg == [commands |-> commands, num |-> num_commands]

\* an entry of the static array before anything is stored in it
NoEntry == [name |-> NULL, help |-> NULL, handler |-> NULL]

\* the table as the program starts with it
RegReset == [commands |-> [k \in 1 .. MAX_COMMANDS |-> NoEntry], num |-> 0]

\* shell_register_command with the test for a full table one entry late
shell_register_command_one_too_many(reg, name, help, handler) ==
    IF reg.num > MAX_COMMANDS
    THEN reg
    ELSE [commands |-> Store(reg.commands, reg.num,
                             [name |-> name, help |-> help, handler |-> handler]),
          num |-> reg.num + 1]

shell_register_command(reg, name, help, handler) ==
    IF reg.num >= MAX_COMMANDS
    THEN reg
    ELSE [commands |-> Store(reg.commands, reg.num,
                             [name |-> name, help |-> help, handler |-> handler]),
          num |-> reg.num + 1]

\* shell_find_command(name): a reference to the index of the first entry the
\* loop finds equal to name, or NULL
shell_find_command(reg, name) ==
    LET found == {i \in 0 .. (reg.num - 1) :
                      strcmp(reg.commands[i + 1].name.obj, name.obj) = 0}
    IN  IF found = {} THEN NULL ELSE Ref(First(found))

SetReg(reg) ==
    /\ commands' = reg.commands
    /\ num_commands' = reg.num

(***************************************************************************)
(* SpecReg: shell_register_command and shell_find_command called on tables *)
(* that earlier registrations filled to every count up to the capacity     *)
(***************************************************************************)
\* "help", "clear", "echo", "info": the names shell_init_commands registers
NameHelp == <<104, 101, 108, 112>>

NameClear == <<99, 108, 101, 97, 114>>

NameEcho == <<101, 99, 104, 111>>

NameInfo == <<105, 110, 102, 111>>

\* "Echo", "ech", "echoo", "": names that differ from "echo" in case or length
NameEchoCapital == <<69, 99, 104, 111>>

NameEch == <<101, 99, 104>>

NameEchoo == <<101, 99, 104, 111, 111>>

NameEmpty == <<>>

\* the names that earlier registrations used, in turn
FillNames == <<NameHelp, NameClear, NameEcho, NameInfo, NameEch, NameEchoo>>

FillHandlers == <<"cmd_help", "cmd_clear", "cmd_echo", "cmd_info">>

\* the i-th (from 0) earlier registration: names in turn with stride step, a
\* help text that tells the registrations apart
FillEntry(i, step) ==
    [name |-> Ref(CString(FillNames[((i * step) % Len(FillNames)) + 1])),
     help |-> Ref(CString(<<48 + (i \div 10), 48 + (i % 10)>>)),
     handler |-> Ref(FillHandlers[(i % Len(FillHandlers)) + 1])]

\* the table after n registrations
RECURSIVE Filled(_, _)
Filled(n, step) ==
    IF n = 0 THEN RegReset
    ELSE LET e == FillEntry(n - 1, step)
         IN  shell_register_command(Filled(n - 1, step), e.name, e.help, e.handler)

\* what the calls explored register: a name, a help text ("h", "H"), a handler
Registrations ==
    {<<NameEcho, <<104>>, "cmd_echo">>, <<NameEchoCapital, <<72>>, "cmd_help">>,
     <<NameHelp, <<104>>, "cmd_help">>}

FindNames == {NameHelp, NameClear, NameEcho, NameInfo, NameEchoCapital, NameEch,
              NameEchoo, NameEmpty}

RegInit ==
    /\ InitKbd
    /\ NoConsole
    /\ NoProbe
    /\ NoReadline
    /\ NoParser
    /\ \E n \in 0 .. MAX_COMMANDS, step \in {1, 2} :
           \E reg \in {Filled(n, step)} :
               /\ commands = reg.commands
               /\ num_commands = reg.num
    /\ reg_op = <<>>
    /\ find_ret = NULL
    /\ regs = 0
    /\ NoRepl
    /\ NoKbdInit
    /\ NoTwin

ShellRegisterCommand ==
    /\ regs < MaxRegs
    /\ regs' = regs + 1
    /\ \E r \in Registrations :
           /\ reg_op' = <<"register", Ref(CString(r[1])), Ref(CString(r[2])), Ref(r[3])>>
           /\ SetReg(shell_register_command(Reg, Ref(CString(r[1])),
                                            Ref(CString(r[2])), Ref(r[3])))
    /\ find_ret' = NULL
    /\ UNCHANGED <<ctlVars, twinVars, vgaVars, vgaHist, kbdVars, kbdHist, gcVars, probeVars,
                   rlVars, rlHist, parVars, replVars, replHist>>

ShellFindCommand ==
    /\ \E name \in FindNames :
           /\ reg_op' = <<"find", Ref(CString(name))>>
           /\ find_ret' = shell_find_command(Reg, Ref(CString(name)))
    /\ UNCHANGED <<ctlVars, twinVars, regVars, regs, vgaVars, vgaHist, kbdVars, kbdHist, gcVars,
                   probeVars, rlVars, rlHist, parVars, replVars, replHist>>

RegNext ==
    \/ ShellRegisterCommand
    \/ ShellFindCommand

SpecReg == RegInit /\ [][RegNext]_vars

(***************************************************************************)
(* lib/printf/printf.c: kprintf.  A format is the sequence of its bytes,   *)
(* the arguments a sequence: numbers (non-negative and below 2^31 wherever *)
(* the program passes one) and references to strings                       *)
(***************************************************************************)
\* the digits of value in base, the most significant first
RECURSIVE digits_of(_, _, _)
digits_of(value, base, upper) ==
    LET d == value % base
        ch == IF d < 10 THEN 48 + d ELSE (IF upper THEN 65 ELSE 97) + (d - 10)
    IN  IF value < base THEN <<ch>>
        ELSE Append(digits_of(value \div base, base, upper), ch)

print_uint(value, base, upper, width, zeropad) ==
    LET ds == digits_of(value, base, upper)
        pad == width - Len(ds)
    IN  Rep(<<IF zeropad THEN 48 ELSE 32>>, IF pad > 0 THEN pad ELSE 0) \o ds

print_int(value, width, zeropad) ==
    IF value < 0
    THEN <<45>> \o print_uint(-value, 10, FALSE,
                              IF width > 0 THEN width - 1 ELSE width, zeropad)
    ELSE print_uint(value, 10, FALSE, width, zeropad)

\* "(null)" for a NULL string
print_string(str, width, left_justify) ==
    LET s == IF str.null THEN <<40, 110, 117, 108, 108, 41>> ELSE StringAt(str.obj, 0)
        pad == IF width > Len(s) THEN width - Len(s) ELSE 0
    IN  IF left_justify THEN s \o Rep(<<32>>, pad) ELSE Rep(<<32>>, pad) \o s

\* the byte at position i (from 1) of a format, 0 at its end
FmtAt(fmt, i) == IF i <= Len(fmt) THEN fmt[i] ELSE 0

\* width = width * 10 + digit, over the digits fmt[i .. j]
RECURSIVE parse_width(_, _, _)
parse_width(fmt, i, j) ==
    IF i > j THEN 0 ELSE parse_width(fmt, i, j - 1) * 10 + (fmt[j] - 48)

\* what do_printf sends to its sink for the format from position i on
RECURSIVE do_printf_from(_, _, _)
do_printf_from(fmt, i, args) ==
    IF FmtAt(fmt, i) = 0 THEN <<>>
    ELSE IF FmtAt(fmt, i) # 37
    THEN LET j == First({n \in i .. (Len(fmt) + 1) : FmtAt(fmt, n) \in {0, 37}})
         IN  SubSeq(fmt, i, j - 1) \o do_printf_from(fmt, j, args)
    ELSE LET flags == First({n \in (i + 1) .. (Len(fmt) + 1) :
                                 FmtAt(fmt, n) \notin {45, 48}})
             left_justify == \E n \in (i + 1) .. (flags - 1) : fmt[n] = 45
             zeropad == \E n \in (i + 1) .. (flags - 1) : fmt[n] = 48
             spec == First({n \in flags .. (Len(fmt) + 1) :
                                ~(FmtAt(fmt, n) >= 48 /\ FmtAt(fmt, n) <= 57)})
             width == parse_width(fmt, flags, spec - 1)
             c == FmtAt(fmt, spec)
             long == IF FmtAt(fmt, spec + 1) = 108 THEN spec + 2 ELSE spec + 1
             lc == FmtAt(fmt, long)
         IN  CASE c = 37 -> <<37>> \o do_printf_from(fmt, spec + 1, args)
               [] c = 99 -> <<ToU8(Head(args))>> \o do_printf_from(fmt, spec + 1, Tail(args))
               [] c = 115 -> print_string(Head(args), width, left_justify)
                             \o do_printf_from(fmt, spec + 1, Tail(args))
               [] c \in {100, 105} -> print_int(Head(args), width, zeropad)
                                      \o do_printf_from(fmt, spec + 1, Tail(args))
               [] c = 117 -> print_uint(Head(args), 10, FALSE, width, zeropad)
                             \o do_printf_from(fmt, spec + 1, Tail(args))
               [] c = 120 -> print_uint(Head(args), 16, FALSE, width, zeropad)
                             \o do_printf_from(fmt, spec + 1, Tail(args))
               [] c = 88 -> print_uint(Head(args), 16, TRUE, width, zeropad)
                            \o do_printf_from(fmt, spec + 1, Tail(args))
               [] c = 112 -> <<48, 120>> \o print_uint(Head(args), 16, FALSE, 16, TRUE)
                             \o do_printf_from(fmt, spec + 1, Tail(args))
               [] c = 108 /\ lc \in {100, 105} ->
                      print_int(Head(args), width, zeropad)
                      \o do_printf_from(fmt, long + 1, Tail(args))
               [] c = 108 /\ lc = 117 ->
                      print_uint(Head(args), 10, FALSE, width, zeropad)
                      \o do_printf_from(fmt, long + 1, Tail(args))
               [] c = 108 /\ lc = 120 ->
                      print_uint(Head(args), 16, FALSE, width, zeropad)
                      \o do_printf_from(fmt, long + 1, Tail(args))
               [] c = 108 /\ lc \notin {100, 105, 117, 120} ->
                      <<37, 108>> \o do_printf_from(fmt, long, args)
               [] OTHER -> <<37, c>> \o do_printf_from(fmt, spec + 1, args)

do_printf(fmt, args) == do_printf_from(fmt, 1, args)

\* kprintf(fmt, ...) as the calls of vga_putchar it makes, in order
kprintf(fmt, args) ==
    LET out == do_printf(fmt, args)
    IN  [k \in 1 .. Len(out) |-> <<"vga_putchar", out[k]>>]

\* one call of a console routine
vga_call(con, call) ==
    CASE call[1] = "vga_putchar" -> vga_putchar(con, call[2])
      [] call[1] = "vga_set_color" -> vga_set_color(con, call[2], call[3])
      [] call[1] = "vga_clear" -> vga_clear(con)

\* the calls calls[i .. j] made in order on the console; the first half is
\* worked out before the second starts
RECURSIVE vga_calls_range(_, _, _, _)
vga_calls_range(con, calls, i, j) ==
    IF i > j THEN con
    ELSE IF i = j THEN vga_call(con, calls[i])
    ELSE LET half == vga_calls_range(con, calls, i, (i + j) \div 2)
         IN  IF half.puts >= 0
             THEN vga_calls_range(half, calls, ((i + j) \div 2) + 1, j)
             ELSE half

vga_calls(con, calls) == vga_calls_range(con, calls, 1, Len(calls))

\* the sequences of a sequence of sequences, joined
RECURSIVE Join(_)
Join(seqs) == IF seqs = <<>> THEN <<>> ELSE Head(seqs) \o Join(Tail(seqs))

(***************************************************************************)
(* The texts of the program, as bytes                                      *)
(***************************************************************************)
\* include/squirel/config.h

\* "squirel$ "
SHELL_PROMPT == <<115, 113, 117, 105, 114, 101, 108, 36, 32>>

\* "0.1.0"
SQUIREL_VERSION_STRING == <<48, 46, 49, 46, 48>>

\* "Squirel OS"
SQUIREL_NAME == <<83, 113, 117, 105, 114, 101, 108, 32, 79, 83>>

KERNEL_LOAD_ADDR == 1048576

KERNEL_STACK_TOP == 589824

\* drivers/vga/vga_text.h
VGA_LIGHT_GREEN == 10

VGA_LIGHT_CYAN == 11

VGA_YELLOW == 14

VGA_WHITE == 15

\* shell_run: the formats of the banner, a newline and six lines of ASCII art
BannerFormats ==
    <<<<10>>,
      <<32, 32, 95, 95, 95, 95, 32, 32, 32, 32, 32, 32, 32, 32, 32, 32, 32, 32, 32, 32, 95,
        32, 32, 32, 32, 32, 32, 32, 32, 32, 32, 95, 32, 32, 32, 32, 95, 95, 95, 32,
        32, 95, 95, 95, 95, 32, 32, 10>>,
      <<32, 47, 32, 95, 95, 95, 124, 32, 32, 95, 95, 32, 95, 32, 95, 32, 32, 32, 95, 40,
        95, 41, 95, 32, 95, 95, 32, 95, 95, 95, 124, 32, 124, 32, 32, 47, 32, 95, 32,
        92, 47, 32, 95, 95, 95, 124, 32, 10>>,
      <<32, 92, 95, 95, 95, 32, 92, 32, 47, 32, 95, 96, 32, 124, 32, 124, 32, 124, 32, 124,
        32, 124, 32, 39, 95, 95, 47, 32, 95, 32, 92, 32, 124, 32, 124, 32, 124, 32,
        124, 32, 92, 95, 95, 95, 32, 92, 32, 10>>,
      <<32, 32, 95, 95, 95, 41, 32, 124, 32, 40, 95, 124, 32, 124, 32, 124, 95, 124, 32,
        124, 32, 124, 32, 124, 32, 124, 32, 32, 95, 95, 47, 32, 124, 32, 124, 32,
        124, 95, 124, 32, 124, 95, 95, 95, 41, 32, 124, 10>>,
      <<32, 124, 95, 95, 95, 95, 47, 32, 92, 95, 95, 44, 32, 124, 92, 95, 95, 44, 95, 124,
        95, 124, 95, 124, 32, 32, 92, 95, 95, 95, 124, 95, 124, 32, 32, 92, 95, 95,
        95, 47, 124, 95, 95, 95, 95, 47, 32, 10>>,
      <<32, 32, 32, 32, 32, 32, 32, 32, 32, 32, 32, 124, 95, 124, 32, 32, 32, 32, 32, 32,
        32, 32, 32, 32, 32, 32, 32, 32, 32, 32, 32, 32, 32, 32, 32, 32, 32, 32, 32,
        32, 32, 32, 32, 32, 32, 32, 32, 10>>>>

\* "\n"
FmtNewline == <<10>>

\* "Welcome to Squirel OS v%s\n"
FmtWelcome == <<87, 101, 108, 99, 111, 109, 101, 32, 116, 111, 32, 83, 113, 117, 105,
    114, 101, 108, 32, 79, 83, 32, 118, 37, 115, 10>>

\* "Type 'help' for available commands.\n\n"
FmtTypeHelp2 == <<84, 121, 112, 101, 32, 39, 104, 101, 108, 112, 39, 32, 102, 111,
    114, 32, 97, 118, 97, 105, 108, 97, 98, 108, 101, 32, 99, 111, 109, 109, 97, 110,
    100, 115, 46, 10, 10>>

\* "%s"
FmtString == <<37, 115>>

\* "Error: Failed to parse command\n"
FmtParseError == <<69, 114, 114, 111, 114, 58, 32, 70, 97, 105, 108, 101, 100, 32,
    116, 111, 32, 112, 97, 114, 115, 101, 32, 99, 111, 109, 109, 97, 110, 100, 10>>

\* "Unknown command: %s\n"
FmtUnknown == <<85, 110, 107, 110, 111, 119, 110, 32, 99, 111, 109, 109, 97, 110,
    100, 58, 32, 37, 115, 10>>

\* "Type 'help' for available commands.\n"
FmtTypeHelp == <<84, 121, 112, 101, 32, 39, 104, 101, 108, 112, 39, 32, 102, 111,
    114, 32, 97, 118, 97, 105, 108, 97, 98, 108, 101, 32, 99, 111, 109, 109, 97, 110,
    100, 115, 46, 10>>

\* shell_init_commands: the help texts
HelpOfHelp == <<68, 105, 115, 112, 108, 97, 121, 32, 97, 118, 97, 105, 108, 97, 98,
    108, 101, 32, 99, 111, 109, 109, 97, 110, 100, 115>>

HelpOfClear == <<67, 108, 101, 97, 114, 32, 116, 104, 101, 32, 115, 99, 114, 101,
    101, 110>>

HelpOfEcho == <<80, 114, 105, 110, 116, 32, 116, 101, 120, 116, 32, 116, 111, 32,
    115, 99, 114, 101, 101, 110>>

HelpOfInfo == <<68, 105, 115, 112, 108, 97, 121, 32, 115, 121, 115, 116, 101, 109,
    32, 105, 110, 102, 111, 114, 109, 97, 116, 105, 111, 110>>

\* cmd_echo: " "
FmtSpace == <<32>>

\* cmd_help: "\nAvailable commands:\n", "-------------------\n", "  %-10s - %s\n"
FmtHelpHeader == <<10, 65, 118, 97, 105, 108, 97, 98, 108, 101, 32, 99, 111, 109,
    109, 97, 110, 100, 115, 58, 10>>

FmtHelpRule == <<45, 45, 45, 45, 45, 45, 45, 45, 45, 45, 45, 45, 45, 45, 45, 45, 45,
    45, 45, 10>>

FmtHelpEntry == <<32, 32, 37, 45, 49, 48, 115, 32, 45, 32, 37, 115, 10>>

\* cmd_info: "System Information\n"
FmtInfoTitle == <<83, 121, 115, 116, 101, 109, 32, 73, 110, 102, 111, 114, 109, 97,
    116, 105, 111, 110, 10>>

\* cmd_info: "==================\n\n"
FmtInfoRule == <<61, 61, 61, 61, 61, 61, 61, 61, 61, 61, 61, 61, 61, 61, 61, 61, 61,
    61, 10, 10>>

\* cmd_info: "  OS Name:      %s\n"
FmtInfoName == <<32, 32, 79, 83, 32, 78, 97, 109, 101, 58, 32, 32, 32, 32, 32, 32,
    37, 115, 10>>

\* cmd_info: "  Version:      %s\n"
FmtInfoVersion == <<32, 32, 86, 101, 114, 115, 105, 111, 110, 58, 32, 32, 32, 32, 32,
    32, 37, 115, 10>>

\* cmd_info: "  Architecture: x86_64 (64-bit)\n"
FmtInfoArch == <<32, 32, 65, 114, 99, 104, 105, 116, 101, 99, 116, 117, 114, 101, 58,
    32, 120, 56, 54, 95, 54, 52, 32, 40, 54, 52, 45, 98, 105, 116, 41, 10>>

\* cmd_info: "  Video Mode:   VGA Text (80x25, 16 colors)\n"
FmtInfoVideo == <<32, 32, 86, 105, 100, 101, 111, 32, 77, 111, 100, 101, 58, 32, 32,
    32, 86, 71, 65, 32, 84, 101, 120, 116, 32, 40, 56, 48, 120, 50, 53, 44, 32, 49,
    54, 32, 99, 111, 108, 111, 114, 115, 41, 10>>

\* cmd_info: "Memory:\n"
FmtInfoMemory == <<77, 101, 109, 111, 114, 121, 58, 10>>

\* cmd_info: "  Kernel Load:  0x%X\n"
FmtInfoLoad == <<32, 32, 75, 101, 114, 110, 101, 108, 32, 76, 111, 97, 100, 58, 32,
    32, 48, 120, 37, 88, 10>>

\* cmd_info: "  Stack Top:    0x%X\n"
FmtInfoStack == <<32, 32, 83, 116, 97, 99, 107, 32, 84, 111, 112, 58, 32, 32, 32, 32,
    48, 120, 37, 88, 10>>

\* kmain: "[OK] "
BootOk == <<91, 79, 75, 93, 32>>

\* kmain: "VGA text mode initialized"
BootVga == <<86, 71, 65, 32, 116, 101, 120, 116, 32, 109, 111, 100, 101, 32, 105,
    110, 105, 116, 105, 97, 108, 105, 122, 101, 100>>

\* kmain: "Serial port initialized (COM1)"
BootSerial == <<83, 101, 114, 105, 97, 108, 32, 112, 111, 114, 116, 32, 105, 110,
    105, 116, 105, 97, 108, 105, 122, 101, 100, 32, 40, 67, 79, 77, 49, 41>>

\* kmain: "Keyboard initialized"
BootKeyboard == <<75, 101, 121, 98, 111, 97, 114, 100, 32, 105, 110, 105, 116, 105,
    97, 108, 105, 122, 101, 100>>

\* kmain: "Starting shell..."
BootShell == <<83, 116, 97, 114, 116, 105, 110, 103, 32, 115, 104, 101, 108, 108, 46,
    46, 46>>

(***************************************************************************)
(* entry/kmain.c: what kmain does to the console before it calls shell_run *)
(***************************************************************************)
\* vga_print(str) as its calls of vga_putchar
vga_print_calls(str) == [k \in 1 .. Len(str) |-> <<"vga_putchar", str[k]>>]

\* a green "[OK] " and a white message with a newline
boot_message(msg) ==
    <<<<"vga_set_color", VGA_LIGHT_GREEN, VGA_BLACK>>>> \o vga_print_calls(BootOk)
    \o <<<<"vga_set_color", VGA_WHITE, VGA_BLACK>>>> \o vga_print_calls(msg)
    \o <<<<"vga_putchar", 10>>>>

kmain(con) ==
    vga_calls(vga_init(con),
              boot_message(BootVga) \o boot_message(BootSerial)
              \o boot_message(BootKeyboard) \o boot_message(BootShell))

(***************************************************************************)
(* shell/commands: the built-in commands, as the console calls they make   *)
(***************************************************************************)
\* the string argv[k] of a parsed_cmd_t refers to
ArgvString(cmd, k) == StringAt(cmd.buffer, cmd.argv[k + 1].obj)

cmd_help(reg) ==
    kprintf(FmtHelpHeader, <<>>) \o kprintf(FmtHelpRule, <<>>)
    \o Join([i \in 1 .. reg.num |->
                 kprintf(FmtHelpEntry, <<reg.commands[i].name, reg.commands[i].help>>)])
    \o kprintf(FmtNewline, <<>>)

cmd_clear == <<<<"vga_clear">>>>

cmd_echo(argc, cmd) ==
    Join([i \in 1 .. (argc - 1) |->
              kprintf(FmtString, <<Ref(CString(ArgvString(cmd, i)))>>)
              \o (IF i < argc - 1 THEN kprintf(FmtSpace, <<>>) ELSE <<>>)])
    \o kprintf(FmtNewline, <<>>)

cmd_info ==
    kprintf(FmtNewline, <<>>)
    \o <<<<"vga_set_color", VGA_YELLOW, VGA_BLACK>>>>
    \o kprintf(FmtInfoTitle, <<>>)
    \o <<<<"vga_set_color", VGA_LIGHT_GRAY, VGA_BLACK>>>>
    \o kprintf(FmtInfoRule, <<>>)
    \o kprintf(FmtInfoName, <<Ref(CString(SQUIREL_NAME))>>)
    \o kprintf(FmtInfoVersion, <<Ref(CString(SQUIREL_VERSION_STRING))>>)
    \o kprintf(FmtInfoArch, <<>>)
    \o kprintf(FmtInfoVideo, <<>>)
    \o kprintf(FmtNewline, <<>>)
    \o kprintf(FmtInfoMemory, <<>>)
    \o kprintf(FmtInfoLoad, <<KERNEL_LOAD_ADDR>>)
    \o kprintf(FmtInfoStack, <<KERNEL_STACK_TOP>>)
    \o kprintf(FmtNewline, <<>>)

\* command->handler(argc, argv): the console calls of the function the
\* pointer refers to
handler_calls(handler, argc, cmd, reg) ==
    CASE handler.obj = "cmd_help" -> cmd_help(reg)
      [] handler.obj = "cmd_clear" -> cmd_clear
      [] handler.obj = "cmd_echo" -> cmd_echo(argc, cmd)
      [] handler.obj = "cmd_info" -> cmd_info

(***************************************************************************)
(* shell/commands/cmd_color.c                                              *)
(***************************************************************************)
\* an int of x86-64 as its 32 bits, <<high half, low half>>, and back
Halves(n) == <<(n \div 65536) % 65536, n % 65536>>

ToInt32(h) == (IF h[1] >= 32768 THEN h[1] - 65536 ELSE h[1]) * 65536 + h[2]

\* val * 10 + d in int, keeping the low 32 bits of the sum
MulAdd(val, d) ==
    LET h == Halves(val)
        low == h[2] * 10 + d
    IN  ToInt32(<<(h[1] * 10 + (low \div 65536)) % 65536, low % 65536>>)

\* color_names up to its NULL entry: name, color
color_names ==
    <<<<<<98, 108, 97, 99, 107>>, 0>>,
      <<<<98, 108, 117, 101>>, 1>>,
      <<<<103, 114, 101, 101, 110>>, 2>>,
      <<<<99, 121, 97, 110>>, 3>>,
      <<<<114, 101, 100>>, 4>>,
      <<<<109, 97, 103, 101, 110, 116, 97>>, 5>>,
      <<<<98, 114, 111, 119, 110>>, 6>>,
      <<<<103, 114, 97, 121>>, 7>>,
      <<<<100, 97, 114, 107, 103, 114, 97, 121>>, 8>>,
      <<<<108, 105, 103, 104, 116, 98, 108, 117, 101>>, 9>>,
      <<<<108, 105, 103, 104, 116, 103, 114, 101, 101, 110>>, 10>>,
      <<<<108, 105, 103, 104, 116, 99, 121, 97, 110>>, 11>>,
      <<<<108, 105, 103, 104, 116, 114, 101, 100>>, 12>>,
      <<<<108, 105, 103, 104, 116, 109, 97, 103, 101, 110, 116, 97>>,
        13>>,
      <<<<121, 101, 108, 108, 111, 119>>, 14>>,
      <<<<119, 104, 105, 116, 101>>, 15>>>>

FmtColorUsage == <<10, 85, 115, 97, 103, 101, 58, 32, 99, 111, 108, 111, 114, 32, 60, 102,
      103, 62, 32, 91, 98, 103, 93, 10, 10>>

FmtColorAvailable == <<65, 118, 97, 105, 108, 97, 98, 108, 101, 32, 99, 111, 108, 111, 114, 115,
      58, 10>>

FmtColorEntry == <<32, 32, 37, 50, 100, 58, 32, 37, 45, 49, 50, 115>>

FmtColorExample == <<10, 10, 69, 120, 97, 109, 112, 108, 101, 58, 32, 99, 111, 108, 111, 114,
      32, 121, 101, 108, 108, 111, 119, 32, 98, 108, 117, 101, 10, 10>>

FmtColorInvalid == <<69, 114, 114, 111, 114, 58, 32, 73, 110, 118, 97, 108, 105, 100, 32, 99,
      111, 108, 111, 114, 32, 39, 37, 115, 39, 10>>

FmtColorSet == <<67, 111, 108, 111, 114, 32, 115, 101, 116, 32, 116, 111, 32, 37, 115, 32,
      111, 110, 32, 37, 115, 10>>

\* val = val * 10 + (*str - '0') over the first n digits of str, in int
RECURSIVE color_val(_, _)
color_val(str, n) ==
    IF n = 0 THEN 0 ELSE MulAdd(color_val(str, n - 1), str[n] - 48)

\* parse_color(str, &out): whether it returned true, and *out. The sum
\* overflows int from the tenth digit on, which the language leaves undefined:
\* the build either keeps the test val >= 0 on the wrapped sum or, taking the
\* sum of digits for non-negative, drops it (nonneg)
parse_color(str, nonneg) ==
    IF At(str, 0) >= 48 /\ At(str, 0) <= 57
    THEN LET n == First({k \in 1 .. Len(str) : ~(At(str, k) >= 48 /\ At(str, k) <= 57)})
             val == color_val(str, n)
         IN  IF At(str, n) = 0 /\ (nonneg \/ val >= 0) /\ val <= 15
             THEN [ok |-> TRUE, out |-> val]
             ELSE [ok |-> FALSE]
    ELSE LET found == {i \in 1 .. Len(color_names) :
                           strcmp(str, CString(color_names[i][1])) = 0}
         IN  IF found = {} THEN [ok |-> FALSE]
             ELSE [ok |-> TRUE, out |-> color_names[First(found)][2]]

\* cmd_color(argc, argv) as the console calls it makes; argv[k] (from 0) is
\* the string argv[k + 1] here
cmd_color(argc, argv, nonneg) ==
    IF argc = 1
    THEN kprintf(FmtColorUsage, <<>>) \o kprintf(FmtColorAvailable, <<>>)
         \o Join([i \in 1 .. Len(color_names) |->
                      <<<<"vga_set_color", color_names[i][2], VGA_BLACK>>>>
                      \o kprintf(FmtColorEntry,
                                 <<color_names[i][2], Ref(CString(color_names[i][1]))>>)
                      \o (IF i % 4 = 0 THEN kprintf(FmtNewline, <<>>) ELSE <<>>)])
         \o <<<<"vga_set_color", VGA_LIGHT_GRAY, VGA_BLACK>>>>
         \o kprintf(FmtColorExample, <<>>)
    ELSE LET fg == parse_color(CString(argv[2]), nonneg)
             bg == IF argc >= 3 THEN parse_color(CString(argv[3]), nonneg)
                   ELSE [ok |-> TRUE, out |-> VGA_BLACK]
         IN  IF ~fg.ok
             THEN kprintf(FmtColorInvalid, <<Ref(CString(argv[2]))>>)
             ELSE IF ~bg.ok
             THEN kprintf(FmtColorInvalid, <<Ref(CString(argv[3]))>>)
             ELSE <<<<"vga_set_color", fg.out, bg.out>>>>
                  \o kprintf(FmtColorSet,
                             <<Ref(CString(argv[2])),
                               Ref(CString(IF argc >= 3 THEN argv[3]
                                           ELSE color_names[1][1]))>>)

(***************************************************************************)
(* shell/shell.c: shell_execute and shell_run                              *)
(***************************************************************************)
\* the console, the command table, the handlers called so far with arguments
\* and the console calls made so far, as one value
Sh == [con |-> Con, reg |-> Reg, calls |-> <<>>, out |-> <<>>]

\* console calls made one after the other
emit(sh, calls) == [sh EXCEPT !.con = vga_calls(@, calls), !.out = @ \o calls]

shell_init_commands_with_color(reg) ==
    shell_register_command(
        shell_register_command(
            shell_register_command(
                shell_register_command(
                    shell_register_command(reg, Ref(CString(NameHelp)),
                                           Ref(CString(HelpOfHelp)), Ref("cmd_help")),
                    Ref(CString(NameClear)), Ref(CString(HelpOfClear)),
                    Ref("cmd_clear")),
                Ref(CString(NameEcho)), Ref(CString(HelpOfEcho)), Ref("cmd_echo")),
            Ref(CString(NameInfo)), Ref(CString(HelpOfInfo)), Ref("cmd_info")),
        Ref(CString(<<99, 111, 108, 111, 114>>)), Ref(CString(<<>>)), Ref("cmd_color"))

shell_init_commands(reg) ==
    shell_register_command(
        shell_register_command(
            shell_register_command(
                shell_register_command(reg, Ref(CString(NameHelp)),
                                       Ref(CString(HelpOfHelp)), Ref("cmd_help")),
                Ref(CString(NameClear)), Ref(CString(HelpOfClear)), Ref("cmd_clear")),
            Ref(CString(NameEcho)), Ref(CString(HelpOfEcho)), Ref("cmd_echo")),
        Ref(CString(NameInfo)), Ref(CString(HelpOfInfo)), Ref("cmd_info"))

\* the call of the handler of the entry found, recorded with what argv[0 ..
\* argc-1] read as
invoke(sh, entry, cmd) ==
    [emit(sh, handler_calls(entry.handler, cmd.argc, cmd, sh.reg))
         EXCEPT !.calls = Append(@, [handler |-> entry.handler, argc |-> cmd.argc,
                                     argv |-> [k \in 1 .. cmd.argc |->
                                                   ArgvString(cmd, k - 1)]])]

\* the report of a command that is not in the table
unknown_command(sh, cmd) ==
    emit(sh, kprintf(FmtUnknown, <<Ref(CString(ArgvString(cmd, 0)))>>)
             \o kprintf(FmtTypeHelp, <<>>))

\* shell_execute that also reports a line without arguments
shell_execute_reports_empty(sh, cmdline) ==
    LET parsed == parser_parse(cmdline, Ref(UninitCmd))
        cmd == parsed.cmd.obj
        command == shell_find_command(sh.reg, Ref(CString(ArgvString(cmd, 0))))
    IN  IF ~parsed.ret
        THEN emit(sh, kprintf(FmtParseError, <<>>))
        ELSE IF cmd.argc = 0
        THEN emit(sh, kprintf(FmtTypeHelp, <<>>))
        ELSE IF ~command.null
        THEN invoke(sh, sh.reg.commands[command.obj + 1], cmd)
        ELSE unknown_command(sh, cmd)

\* shell_execute that calls the first handler of the table for a command
\* that is not in it
shell_execute_falls_back(sh, cmdline) ==
    LET parsed == parser_parse(cmdline, Ref(UninitCmd))
        cmd == parsed.cmd.obj
        command == shell_find_command(sh.reg, Ref(CString(ArgvString(cmd, 0))))
    IN  IF ~parsed.ret
        THEN emit(sh, kprintf(FmtParseError, <<>>))
        ELSE IF cmd.argc = 0
        THEN sh
        ELSE IF ~command.null
        THEN invoke(sh, sh.reg.commands[command.obj + 1], cmd)
        ELSE invoke(sh, sh.reg.commands[1], cmd)

\* shell_execute that calls the handler of the last entry of the table
shell_execute_last_entry(sh, cmdline) ==
    LET parsed == parser_parse(cmdline, Ref(UninitCmd))
        cmd == parsed.cmd.obj
        command == shell_find_command(sh.reg, Ref(CString(ArgvString(cmd, 0))))
    IN  IF ~parsed.ret
        THEN emit(sh, kprintf(FmtParseError, <<>>))
        ELSE IF cmd.argc = 0
        THEN sh
        ELSE IF ~command.null
        THEN invoke(sh, sh.reg.commands[sh.reg.num], cmd)
        ELSE unknown_command(sh, cmd)

shell_execute(sh, cmdline) ==
    LET parsed == parser_parse(cmdline, Ref(UninitCmd))
        cmd == parsed.cmd.obj
        command == shell_find_command(sh.reg, Ref(CString(ArgvString(cmd, 0))))
    IN  IF ~parsed.ret
        THEN emit(sh, kprintf(FmtParseError, <<>>))
        ELSE IF cmd.argc = 0
        THEN sh
        ELSE IF ~command.null
        THEN invoke(sh, sh.reg.commands[command.obj + 1], cmd)
        ELSE unknown_command(sh, cmd)

\* shell_run up to its loop: the built-in commands and the banner
shell_run_init(sh) ==
    emit([sh EXCEPT !.reg = shell_init_commands(@)],
         <<<<"vga_set_color", VGA_LIGHT_CYAN, VGA_BLACK>>>>
         \o Join([k \in 1 .. Len(BannerFormats) |-> kprintf(BannerFormats[k], <<>>)])
         \o <<<<"vga_set_color", VGA_LIGHT_GRAY, VGA_BLACK>>>>
         \o kprintf(FmtNewline, <<>>)
         \o kprintf(FmtWelcome, <<Ref(CString(SQUIREL_VERSION_STRING))>>)
         \o kprintf(FmtTypeHelp2, <<>>))

\* shell_run_prompt without the return to light gray after the prompt
shell_run_prompt_stays_green(sh) ==
    emit(sh, <<<<"vga_set_color", VGA_LIGHT_GREEN, VGA_BLACK>>>>
             \o kprintf(FmtString, <<Ref(CString(SHELL_PROMPT))>>))

\* the prompt, in green
shell_run_prompt(sh) ==
    emit(sh, <<<<"vga_set_color", VGA_LIGHT_GREEN, VGA_BLACK>>>>
             \o kprintf(FmtString, <<Ref(CString(SHELL_PROMPT))>>)
             \o <<<<"vga_set_color", VGA_LIGHT_GRAY, VGA_BLACK>>>>)

\* shell_run that returns after shell_execute
shell_run_next_returns(pc) ==
    CASE pc = "init" -> "prompt"
      [] pc = "prompt" -> "read"
      [] pc = "read" -> "execute"
      [] pc = "execute" -> "ret"

\* the position shell_run goes to from the position pc: from its start into
\* the loop, and from the end of the body of for (;;) to its top
shell_run_next(pc) ==
    CASE pc = "init" -> "prompt"
      [] pc = "prompt" -> "read"
      [] pc = "read" -> "execute"
      [] pc = "execute" -> "prompt"

\* the array line of shell_run as shell_execute reads it
LineMemory == [k \in 1 .. SHELL_MAX_CMD_LEN |-> rl_buffer[k - 1]]

(***************************************************************************)
(* SpecRepl: shell_run after kmain, with the lines a user types on the     *)
(* keyboard.  SpecReplLive adds that the program keeps running.            *)
(***************************************************************************)
\* the make code of the key that gives the character ch without a modifier
ScancodeOf(ch) ==
    CHOOSE sc \in 1 .. 127 :
        scancode_to_ascii_lower[sc + 1] = ch /\ special_key(sc) = KEY_NONE

\* the make codes that type str, and Enter
Typed(str) == [k \in 1 .. Len(str) |-> ScancodeOf(str[k])] \o <<28>>

\* "echo hi there", "foo", "", "  ", "help", "clear", "info", "Echo hi" (with
\* Shift held for the E), and "echo" with sixteen arguments "a": 17 tokens
TypedLines ==
    {Typed(NameEcho \o <<32, 104, 105, 32, 116, 104, 101, 114, 101>>),
     Typed(<<102, 111, 111>>),
     Typed(<<>>),
     Typed(<<32, 32>>),
     Typed(NameHelp),
     Typed(NameClear),
     Typed(NameInfo),
     <<42, ScancodeOf(101), 170>> \o Typed(<<99, 104, 111, 32, 104, 105>>),
     Typed(NameEcho \o Rep(<<32, 97>>, 16))}

ReplInit ==
    /\ InitKbd
    /\ NoKbdInit
    /\ NoTwin
    /\ NoProbe
    /\ InitCon(kmain(ConReset))
    /\ vga_op = <<>>
    /\ vga_scrolls = 0
    /\ vga_puts = 0
    /\ vga_syncs = 0
    /\ ops = 0
    /\ rl_pc = "idle"
    /\ rl_maxlen = 0
    /\ rl_pos = 0
    /\ rl_buffer = [i \in 0 .. (SHELL_MAX_CMD_LEN - 1) |-> Uninit]
    /\ rl_ret = 0
    /\ rl_line = <<>>
    /\ NoParser
    /\ commands = RegReset.commands
    /\ num_commands = RegReset.num
    /\ reg_op = <<>>
    /\ find_ret = NULL
    /\ regs = 0
    /\ sh_pc = "init"
    /\ kb_pending = <<>>
    /\ sh_calls = <<>>
    /\ sh_out = <<>>
    /\ exec_line = NULL
    /\ sh_lines = 0

\* shell_run from its entry to the top of its loop
ShellRunInit ==
    /\ sh_pc = "init"
    /\ \E sh \in {shell_run_init(Sh)} :
           /\ SetCon(sh.con)
           /\ SetReg(sh.reg)
           /\ vga_scrolls' = sh.con.scrolls
           /\ vga_puts' = sh.con.puts
           /\ vga_syncs' = sh.con.syncs
           /\ sh_out' = sh.out
    /\ sh_pc' = shell_run_next(sh_pc)
    /\ UNCHANGED <<ctlVars, twinVars,
                   vga_op, ops, kbdVars, kbdHist, gcVars, probeVars, rlVars, rlHist,
                   parVars, regHist, kb_pending, sh_calls, exec_line, sh_lines>>

\* the prompt, and shell_readline(line, sizeof(line)) up to its wait for the
\* first key; the user types one more of lines, up to max of them, or nothing
\* from now on
ShellRunPromptFrom(lines, max) ==
    /\ sh_pc = "prompt"
    /\ \E sh \in {shell_run_prompt(Sh)} :
           /\ \E st \in {shell_readline([Rl EXCEPT !.con = sh.con],
                                        SHELL_MAX_CMD_LEN)} : SetRl(st)
           /\ sh_out' = sh.out
    /\ rl_line' = <<>>
    /\ gc_pc' = "spin"
    /\ gc_ret' = KEY_NONE
    /\ \/ /\ sh_lines < max
          /\ sh_lines' = sh_lines + 1
          /\ \E l \in lines : kb_pending' = kb_pending \o l
       \/ /\ sh_lines' = sh_lines
          /\ kb_pending' = kb_pending
    /\ sh_pc' = shell_run_next(sh_pc)
    /\ UNCHANGED <<ctlVars, twinVars,
                   vga_op, ops, kbdVars, kbdHist, probeVars, parVars, regVars, regHist,
                   sh_calls, exec_line>>

ShellRunPrompt == ShellRunPromptFrom(TypedLines, MaxLines)

\* one iteration of the loop of keyboard_getchar inside shell_readline: the
\* next byte typed, or none; when it gave a key, the body of the loop of
\* shell_readline, and its return to shell_run at Enter or a full buffer
ShellRunKey ==
    /\ sh_pc = "read"
    /\ rl_pc = "loop"
    /\ Decode(keyboard_read_scancode(kb_pending # <<>>,
                                     IF kb_pending # <<>> THEN Head(kb_pending) ELSE 0))
    /\ kb_pending' = IF kb_pending # <<>> THEN Tail(kb_pending) ELSE kb_pending
    /\ IF getchar_returns(kb_result')
       THEN /\ \E st \in {shell_readline_key(Rl, kb_result')} :
                   /\ SetRl(st)
                   /\ gc_pc' = IF st.pc = "loop" THEN "spin" ELSE "ret"
                   /\ sh_pc' = IF st.pc = "loop" THEN sh_pc ELSE shell_run_next(sh_pc)
            /\ gc_ret' = kb_result'
            /\ rl_line' = FoldKey(rl_line, kb_result')
       ELSE /\ vga_scrolls' = 0
            /\ vga_puts' = 0
            /\ vga_syncs' = 0
            /\ UNCHANGED <<vgaVars, rlVars, rlHist, gcVars, sh_pc>>
    /\ UNCHANGED <<vga_op, ops, parVars, regVars, regHist, sh_calls, sh_out,
                   exec_line, sh_lines, ctlVars, twinVars>>

\* shell_execute(line), and back to the top of the loop
ShellRunExecute ==
    /\ sh_pc = "execute"
    /\ \E sh \in {shell_execute(Sh, Ref(LineMemory))} :
           /\ SetCon(sh.con)
           /\ SetReg(sh.reg)
           /\ vga_scrolls' = sh.con.scrolls
           /\ vga_puts' = sh.con.puts
           /\ vga_syncs' = sh.con.syncs
           /\ sh_calls' = sh.calls
           /\ sh_out' = sh.out
    /\ exec_line' = Ref(CString(StringAt(LineMemory, 0)))
    /\ sh_pc' = shell_run_next(sh_pc)
    /\ UNCHANGED <<ctlVars, twinVars,
                   vga_op, ops, kbdVars, kbdHist, gcVars, probeVars, rlVars, rlHist,
                   parVars, regHist, kb_pending, sh_lines>>

ReplNext ==
    \/ ShellRunInit
    \/ ShellRunPrompt
    \/ ShellRunKey
    \/ ShellRunExecute

SpecRepl == ReplInit /\ [][ReplNext]_vars

\* shell_run moves on from the position pc to the position next
Proceeds(pc, next) == sh_pc = pc /\ sh_pc' = next

\* the processor keeps executing the program: shell_run does not stay at a
\* position where it does not wait for the keyboard
SpecReplLive ==
    /\ SpecRepl
    /\ WF_sh_pc(Proceeds("init", "prompt"))
    /\ WF_sh_pc(Proceeds("prompt", "read"))
    /\ WF_sh_pc(Proceeds("execute", "prompt"))

(***************************************************************************)
(* SpecScript: shell_run with the keys of longer scripts: a line that       *)
(* fills the buffer, keys the line editor ignores, Ctrl held, and the       *)
(* names of the handlers that are in the source                             *)
(***************************************************************************)
NameColor == <<99, 111, 108, 111, 114>>

NameMemdump == <<109, 101, 109, 100, 117, 109, 112>>

\* the make codes of the letters a .. z but h and j
OtherLetters ==
    LET letters == SelectSeq([k \in 1 .. 26 |-> 96 + k], LAMBDA ch : ch \notin {104, 106})
    IN  [k \in 1 .. Len(letters) |-> ScancodeOf(letters[k])]

\* 300 times the key A, with no Enter; "echo", Tab, "a b", Up, Enter; "ab",
\* Ctrl+h, "c", Ctrl+j; "x", Ctrl with every other letter, Enter; "color
\* red" and "memdump 0", each with Enter
ScriptLines ==
    {Rep(<<ScancodeOf(97)>>, 300),
     SubSeq(Typed(NameEcho), 1, 4) \o <<15>> \o SubSeq(Typed(<<97, 32, 98>>), 1, 3)
         \o <<72, 28>>,
     SubSeq(Typed(<<97, 98>>), 1, 2) \o <<29, ScancodeOf(104), 157, ScancodeOf(99),
                                          29, ScancodeOf(106), 157>>,
     <<ScancodeOf(120), 29>> \o OtherLetters \o <<157, 28>>,
     Typed(NameColor \o <<32, 114, 101, 100>>),
     Typed(NameMemdump \o <<32, 48>>)}

ShellRunScript == ShellRunPromptFrom(ScriptLines, MaxLines - 1)

ScriptNext ==
    \/ ShellRunInit
    \/ ShellRunScript
    \/ ShellRunKey
    \/ ShellRunExecute

SpecScript == ReplInit /\ [][ScriptNext]_vars

(***************************************************************************)
(* SpecScroll: a screen whose rows all differ, the cursor at the start of  *)
(* the last row; the row is written byte by byte with vga_putchar, and at  *)
(* any point one other byte is written or vga_scroll is called.            *)
(***************************************************************************)
\* the colour set before row r is printed
RowColor(r) == <<15 - (r % 8), r % 8>>

\* the console calls that print a letter and a newline on each of the rows
\* 0 .. 23, each in its own colour
MarkRows ==
    Join([r \in 1 .. (VGA_HEIGHT - 1) |->
              <<<<"vga_set_color", RowColor(r - 1)[1], RowColor(r - 1)[2]>>,
                <<"vga_putchar", 64 + r>>, <<"vga_putchar", 10>>>>])

\* the console after vga_init, MarkRows and a last vga_set_color
MarkedCon(color) ==
    [vga_set_color(vga_calls(vga_init(ConReset), MarkRows), color[1], color[2])
         EXCEPT !.scrolls = 0, !.puts = 0, !.syncs = 0]

\* the bytes a row is filled with, and the bytes written after them
FillBytes == {88, 120}

LastBytes == {10, 65, 9, 13, 8, 7}

ScrollInit ==
    /\ \E color \in Colors : InitCon(MarkedCon(color))
    /\ vga_op = <<>>
    /\ vga_scrolls = 0
    /\ vga_puts = 0
    /\ vga_syncs = 0
    /\ ops = 0
    /\ InitKbd
    /\ NoProbe
    /\ NoReadline
    /\ NoCore

\* every call so far was a vga_putchar of the same byte of FillBytes
Filling ==
    IF ops = 0 THEN TRUE ELSE vga_op[1] = "vga_putchar" /\ vga_op[2] \in FillBytes

ScrollDo(op, after) ==
    /\ ops' = ops + 1
    /\ vga_op' = op
    /\ \E con \in {after} :
           /\ vga_scrolls' = con.scrolls
           /\ vga_puts' = con.puts
           /\ vga_syncs' = con.syncs
           /\ SetCon(con)
    /\ UNCHANGED <<kbdVars, kbdHist, gcVars, probeVars, rlVars, rlHist, coreVars>>

\* vga_putchar of the byte the row is being filled with
ScrollFill ==
    /\ ops < VGA_WIDTH
    /\ \E b \in FillBytes :
           /\ IF ops = 0 THEN TRUE ELSE vga_op = <<"vga_putchar", b>>
           /\ ScrollDo(<<"vga_putchar", b>>, vga_putchar(Con, b))

\* vga_putchar of one other byte, the last call of the run
ScrollLast ==
    /\ Filling
    /\ \E b \in LastBytes : ScrollDo(<<"vga_putchar", b>>, vga_putchar(Con, b))

\* vga_scroll called directly, the last call of the run
ScrollCall ==
    /\ Filling
    /\ ScrollDo(<<"vga_scroll">>, vga_scroll(Con))

ScrollNext ==
    \/ ScrollFill
    \/ ScrollLast
    \/ ScrollCall

SpecScroll == ScrollInit /\ [][ScrollNext]_vars

(***************************************************************************)
(* SpecKbdInit: keyboard_init against the keyboard controller, one port    *)
(* access a step, and the decoder polling the data port once it is over    *)
(***************************************************************************)
KEYBOARD_DATA_PORT == 96

KEYBOARD_STATUS_PORT == 100

\* the status register: bit 0 while a byte waits at the data port, bit 1 while
\* the controller has not taken the last write
Status ==
    (IF ctl_out # <<>> THEN 1 ELSE 0) + (IF ctl_in # <<>> THEN 2 ELSE 0)

\* the port access keyboard_init makes at pc, and where it is after it when the
\* access was a read of the byte status
keyboard_init(pc, status) ==
    CASE pc = "drain" ->
             [io |-> <<"inb", KEYBOARD_STATUS_PORT>>,
              next |-> IF status % 2 = 1 THEN "discard" ELSE "wait_enable"]
      [] pc = "discard" ->
             [io |-> <<"inb", KEYBOARD_DATA_PORT>>, next |-> "drain"]
      [] pc = "wait_enable" ->
             [io |-> <<"inb", KEYBOARD_STATUS_PORT>>,
              next |-> IF (status \div 2) % 2 = 1 THEN "wait_enable" ELSE "enable"]
      [] pc = "enable" ->
             [io |-> <<"outb", KEYBOARD_STATUS_PORT, 174>>, next |-> "wait_scan"]
      [] pc = "wait_scan" ->
             [io |-> <<"inb", KEYBOARD_STATUS_PORT>>,
              next |-> IF (status \div 2) % 2 = 1 THEN "wait_scan" ELSE "scan"]
      [] pc = "scan" ->
             [io |-> <<"outb", KEYBOARD_DATA_PORT, 244>>, next |-> "wait_ack"]
      [] pc = "wait_ack" ->
             [io |-> <<"inb", KEYBOARD_STATUS_PORT>>,
              next |-> IF status % 2 = 1 THEN "ack" ELSE "wait_ack"]
      [] pc = "ack" ->
             [io |-> <<"inb", KEYBOARD_DATA_PORT>>, next |-> "done"]

\* bytes the BIOS may have left at the data port
StaleBytes == {<<>>, <<158>>}

\* the scancodes of a key the user may hit at any time: A pressed, A released
KeyBytes == {30, 158}

\* kmain has called keyboard_init
KbdInitInit ==
    /\ InitKbd
    /\ NoConsole
    /\ NoProbe
    /\ NoReadline
    /\ NoParser
    /\ NoRegistry
    /\ NoRepl
    /\ ki_pc = "drain"
    /\ ctl_out \in StaleBytes
    /\ ctl_in = <<>>
    /\ ki_keys = 0
    /\ io_log = <<>>
    /\ NoTwin

KbdInitRest ==
    UNCHANGED <<vgaVars, vgaHist, kbdVars, kbdHist, gcVars, probeVars, rlVars,
                rlHist, parVars, regVars, regHist, replVars, replHist, twinVars>>

\* the next port access of keyboard_init; a read of the data port takes the
\* oldest byte waiting there, a write stays with the controller until taken
KbdInitStep ==
    /\ ki_pc \notin {"off", "done"}
    /\ LET st == keyboard_init(ki_pc, Status)
           port == st.io[2]
           byte == IF st.io[1] = "outb" THEN st.io[3]
                   ELSE IF port = KEYBOARD_STATUS_PORT THEN Status
                   ELSE IF ctl_out # <<>> THEN Head(ctl_out) ELSE 0
           entry == <<st.io[1], port, byte>>
           again == /\ st.next = ki_pc
                    /\ io_log # <<>>
                    /\ io_log[Len(io_log)] = entry
       IN  /\ ki_pc' = st.next
           /\ io_log' = IF again THEN io_log ELSE Append(io_log, entry)
           /\ ctl_out' = IF st.io[1] = "inb" /\ port = KEYBOARD_DATA_PORT
                            /\ ctl_out # <<>>
                         THEN Tail(ctl_out) ELSE ctl_out
           /\ ctl_in' = IF st.io[1] = "outb" THEN <<<<port, byte>>>> ELSE ctl_in
    /\ UNCHANGED ki_keys
    /\ KbdInitRest

\* the controller takes the write; the keyboard answers Enable Scanning (0xF4
\* at the data port) with the acknowledgment 0xFA
CtlAccept ==
    /\ ki_pc # "off"
    /\ ctl_in # <<>>
    /\ ctl_in' = <<>>
    /\ ctl_out' = IF ctl_in[1] = <<KEYBOARD_DATA_PORT, 244>>
                  THEN Append(ctl_out, 250) ELSE ctl_out
    /\ UNCHANGED <<ki_pc, ki_keys, io_log>>
    /\ KbdInitRest

\* the user hits or lets go of a key: its scancode queues at the data port
CtlKey ==
    /\ ki_pc # "off"
    /\ ki_keys < MaxKeys
    /\ \E k \in KeyBytes : ctl_out' = Append(ctl_out, k)
    /\ ki_keys' = ki_keys + 1
    /\ UNCHANGED <<ki_pc, ctl_in, io_log>>
    /\ KbdInitRest

\* keyboard_getchar_nonblock called after keyboard_init returned: it decodes
\* what keyboard_read_scancode takes from the data port
KbdInitPoll ==
    /\ ki_pc = "done"
    /\ Decode(keyboard_read_scancode(ctl_out # <<>>,
                                     IF ctl_out # <<>> THEN Head(ctl_out) ELSE 0))
    /\ ctl_out' = IF ctl_out # <<>> THEN Tail(ctl_out) ELSE ctl_out
    /\ UNCHANGED <<ki_pc, ctl_in, ki_keys, io_log>>
    /\ UNCHANGED <<vgaVars, vgaHist, gcVars, rlVars, rlHist, parVars, regVars,
                   regHist, replVars, replHist, twinVars>>

KbdInitNext == KbdInitStep \/ CtlAccept \/ CtlKey \/ KbdInitPoll

SpecKbdInit == KbdInitInit /\ [][KbdInitNext]_vars

(***************************************************************************)
(* SpecAlt: two runs of the decoder on scancode streams that differ only   *)
(* by alt make and break codes                                             *)
(***************************************************************************)
\* the make and break codes of Left Alt
AltCodes == {56, 184}

\* the scancodes the two streams share: Left Shift down and up, Left Ctrl
\* down and up, Left Alt down and up, the key a, Up
SharedCodes == {42, 170, 29, 157, 56, 184, 30, 72}

AltInit == InitKbd /\ NoConsole /\ NoProbe /\ NoReadline /\ NoCore

\* the static flags of the second run
Twin ==
    [shift |-> kb_twin.shift, ctrl |-> kb_twin.ctrl, alt |-> kb_twin.alt,
     ret |-> KEY_NONE]

\* the events a caller has seen, after a call that returned ret
Events(out, ret) == IF ret = KEY_NONE THEN out ELSE Append(out, ret)

AltRest ==
    UNCHANGED <<vgaVars, vgaHist, gcVars, rlVars, rlHist, parVars, regVars,
                regHist, replVars, replHist, ki_pc, ctl_out, ctl_in, io_log>>

\* a scancode both streams hold: each run calls keyboard_getchar_nonblock
AltBoth ==
    /\ ki_keys < MaxStream
    /\ ki_keys' = ki_keys + 1
    /\ \E raw \in SharedCodes :
           /\ Decode(raw)
           /\ \E t \in {keyboard_getchar_nonblock(Twin, raw)} :
                  kb_twin' = [shift |-> t.shift, ctrl |-> t.ctrl, alt |-> t.alt,
                              ret |-> t.ret,
                              out1 |-> Events(kb_twin.out1, kb_result'),
                              out2 |-> Events(kb_twin.out2, t.ret)]
    /\ AltRest

\* an alt code only the first stream holds
AltFirst ==
    /\ ki_keys < MaxStream
    /\ ki_keys' = ki_keys + 1
    /\ \E raw \in AltCodes :
           /\ Decode(raw)
           /\ kb_twin' = [kb_twin EXCEPT !.out1 = Events(@, kb_result')]
    /\ AltRest

\* an alt code only the second stream holds
AltSecond ==
    /\ ki_keys < MaxStream
    /\ ki_keys' = ki_keys + 1
    /\ \E raw \in AltCodes :
           \E t \in {keyboard_getchar_nonblock(Twin, raw)} :
               kb_twin' = [kb_twin EXCEPT !.shift = t.shift, !.ctrl = t.ctrl,
                                          !.alt = t.alt, !.ret = t.ret,
                                          !.out2 = Events(@, t.ret)]
    /\ UNCHANGED <<kbdVars, kbdHist, probeVars>>
    /\ AltRest

AltNext == AltBoth \/ AltFirst \/ AltSecond

SpecAlt == AltInit /\ [][AltNext]_vars

(***************************************************************************)
(* SpecColor: cmd_color called with argument vectors on a console that     *)
(* earlier calls have written                                              *)
(***************************************************************************)
\* color arguments: red, lightmagenta, 15, 16, 007, 7x, zzz, 4294967296 (2^32),
\* 2147483648 (2^31), 99999999999
ColorArgs ==
    {<<114, 101, 100>>, <<108, 105, 103, 104, 116, 109, 97, 103, 101, 110, 116, 97>>,
     <<49, 53>>, <<49, 54>>, <<48, 48, 55>>, <<55, 120>>, <<122, 122, 122>>,
     <<52, 50, 57, 52, 57, 54, 55, 50, 57, 54>>,
     <<50, 49, 52, 55, 52, 56, 51, 54, 52, 56>>,
     <<57, 57, 57, 57, 57, 57, 57, 57, 57, 57, 57>>}

\* the argument vectors cmd_color is called with: argv[0] alone, one color,
\* and pairs of a valid or invalid foreground and background
ColorArgvs ==
    {<<NameColor>>}
    \cup {<<NameColor, a>> : a \in ColorArgs}
    \cup {<<NameColor, a, b>> :
              a \in {<<114, 101, 100>>, <<49, 53>>, <<122, 122, 122>>},
              b \in {<<98, 108, 117, 101>>, <<49, 54>>, <<52, 50, 57, 52, 57, 54, 55, 50, 57, 54>>}}

ColorInit ==
    /\ \E c \in {<<VGA_LIGHT_GRAY, VGA_BLACK>>, <<VGA_YELLOW, 1>>} :
           InitCon(vga_set_color(vga_init(ConReset), c[1], c[2]))
    /\ vga_op = <<"vga_init">>
    /\ vga_scrolls = 0
    /\ vga_puts = 0
    /\ vga_syncs = 0
    /\ ops = 0
    /\ InitKbd
    /\ NoProbe
    /\ NoReadline
    /\ NoCore

\* cmd_color(argc, argv)
CmdColor ==
    /\ ops < MaxCalls
    /\ ops' = ops + 1
    /\ \E argv \in ColorArgvs, nonneg \in BOOLEAN :
           \E calls \in {cmd_color(Len(argv), argv, nonneg)} :
               \E con \in {vga_calls(Con, calls)} :
                   /\ SetCon(con)
                   /\ vga_scrolls' = con.scrolls
                   /\ vga_puts' = con.puts
                   /\ vga_syncs' = con.syncs
                   /\ sh_out' = calls
                   /\ vga_op' = <<"cmd_color", argv>>
    /\ UNCHANGED <<kbdVars, kbdHist, gcVars, probeVars, rlVars, rlHist, parVars,
                   regVars, regHist, replVars, sh_calls, exec_line, sh_lines,
                   ctlVars, twinVars>>

SpecColor == ColorInit /\ [][CmdColor]_vars

(***************************************************************************)
(* Properties of the console (SpecVga)                                     *)
(***************************************************************************)
CursorInBounds ==
    /\ cursor_x >= 0 /\ cursor_x < VGA_WIDTH
    /\ cursor_y >= 0 /\ cursor_y < VGA_HEIGHT

\* vga_putchar(b) at the cursor would take the row to 25: a newline on the
\* last row, a tab from its last eight columns, a character written in its
\* last column
WouldReachRow25(b) ==
    /\ cursor_y = VGA_HEIGHT - 1
    /\ \/ b = 10
       \/ b = 9 /\ cursor_x >= VGA_WIDTH - 8
       \/ b \notin {8, 9, 10, 13} /\ ToChar(b) >= 32 /\ cursor_x = VGA_WIDTH - 1

InRange(x, y) == x >= 0 /\ x < VGA_WIDTH /\ y >= 0 /\ y < VGA_HEIGHT

\* C1: after vga_init and any sequence of public console operations the cursor
\* is inside the grid; a vga_putchar that would take the row to 25 makes
\* exactly one scroll and leaves the row at 24, any other makes none; a
\* vga_set_cursor with an argument out of range changes nothing of the console.
C1_CursorStaysInGrid ==
    /\ [](CursorInBounds)
    /\ [][\A b \in PutBytes :
             (ops' = ops + 1 /\ vga_op'[1] = "vga_putchar" /\ vga_op'[2] = b)
             => IF WouldReachRow25(b)
                THEN vga_scrolls' = 1 /\ cursor_y' = VGA_HEIGHT - 1
                ELSE vga_scrolls' = 0]_vars
    /\ [][\A x \in CursorXs, y \in CursorYs :
             (ops' = ops + 1 /\ vga_op'[1] = "vga_set_cursor" /\ vga_op'[2] = x
              /\ vga_op'[3] = y /\ ~InRange(x, y))
             => UNCHANGED vgaVars]_vars

\* a printable character written at (79, 24) has scrolled once and left the
\* cursor at the start of the last row
C1_Witness ==
    /\ vga_op = <<"vga_putchar", 65>>
    /\ vga_scrolls = 1
    /\ cursor_x = 0
    /\ cursor_y = VGA_HEIGHT - 1

\* the console operation op has just been called
Called(op) == ops' = ops + 1 /\ vga_op'[1] = op

\* the cursor location the CRT controller holds in registers 0x0E and 0x0F
HwCursor == crt_regs[14] * 256 + crt_regs[15]

\* C22: after vga_clear, from any console state, every cell is a space in the
\* current attribute and the cursor is at (0,0); a second vga_clear right
\* after it leaves the grid, the cursor, the attribute and the hardware cursor
\* exactly as the first left them.
C22_ClearIsIdempotent ==
    [][Called("vga_clear")
       => /\ vga_buffer' = FilledGrid(32 + current_attr * 256)
          /\ cursor_x' = 0 /\ cursor_y' = 0
          /\ current_attr' = current_attr
          /\ HwCursor' = 0
          /\ (vga_op = <<"vga_clear">>
              => UNCHANGED <<vga_buffer, cursor_x, cursor_y, current_attr, crt_index,
                             crt_regs>>)]_vars

\* yellow on blue was set, and the screen has been cleared as the third
\* operation: it is blank in that colour
C22_Witness ==
    /\ vga_op = <<"vga_clear">>
    /\ ops = 3
    /\ current_attr = 30
    /\ vga_buffer = FilledGrid(32 + 30 * 256)
    /\ cursor_x = 0 /\ cursor_y = 0

\* the attribute byte of a grid entry
AttrOf(entry) == entry \div 256

\* C23: vga_set_color changes the current attribute and nothing else: every
\* cell keeps its character and its attribute, the cursor and the hardware
\* cursor stay.  The attribute changes at no other operation, and it is what
\* the cells written afterwards carry: the cell of a printable character, every
\* cell after vga_clear, the blank row vga_scroll makes, while the rows
\* vga_scroll moves keep theirs.
C23_SetColorChangesOnlyAttribute ==
    /\ [][\A color \in Colors :
             (Called("vga_set_color") /\ vga_op' = <<"vga_set_color", color[1], color[2]>>)
             => /\ current_attr' = (color[2] * 16 + color[1]) % 256
                /\ UNCHANGED <<vga_buffer, cursor_x, cursor_y, crt_index, crt_regs>>]_vars
    /\ [][(ops' = ops + 1 /\ current_attr' # current_attr)
          => Called("vga_set_color")]_vars
    /\ [][\A b \in {65, 126} :
             (Called("vga_putchar") /\ vga_op'[2] = b)
             => vga_buffer'[cursor_y + 1 - vga_scrolls'][cursor_x + 1]
                    = b + current_attr * 256]_vars
    /\ [][Called("vga_clear")
          => \A r \in 1 .. VGA_HEIGHT : \A c \in 1 .. VGA_WIDTH :
                 AttrOf(vga_buffer'[r][c]) = current_attr]_vars
    /\ [][Called("vga_scroll")
          => /\ \A c \in 1 .. VGA_WIDTH :
                    vga_buffer'[VGA_HEIGHT][c] = 32 + current_attr * 256
             /\ \A r \in 1 .. (VGA_HEIGHT - 1) : vga_buffer'[r] = vga_buffer[r + 1]]_vars

\* "Hi" was printed in light gray and the colour then set to yellow on blue:
\* the two letters and the blank cells are still light gray on black
C23_Witness ==
    /\ vga_op = <<"vga_set_color", 14, 1>>
    /\ current_attr = 30
    /\ vga_buffer[1][1] = 72 + 7 * 256
    /\ vga_buffer[1][2] = 105 + 7 * 256
    /\ vga_buffer[1][3] = 32 + 7 * 256

\* the bytes from 0x20 on that are none of the four handled control characters
WrittenBytes == {b \in PutBytes : b >= 32}

\* C24: for every byte b from 0x20 to 0xFF, vga_putchar(b) writes b in the
\* current attribute into the cell at the cursor, changes no other cell unless
\* a scroll follows, and advances the column by one, going to column 0 of the
\* next row when the column reaches 80.
C24_PutcharWritesEveryByteFrom0x20 ==
    [][\A b \in WrittenBytes :
          (Called("vga_putchar") /\ vga_op'[2] = b)
          => /\ vga_buffer'[cursor_y + 1 - vga_scrolls'][cursor_x + 1]
                    = b + current_attr * 256
             /\ vga_scrolls' = 0
                => \A r \in 1 .. VGA_HEIGHT : \A c \in 1 .. VGA_WIDTH :
                       (r # cursor_y + 1 \/ c # cursor_x + 1)
                       => vga_buffer'[r][c] = vga_buffer[r][c]
             /\ cursor_x' = (IF cursor_x + 1 = VGA_WIDTH THEN 0 ELSE cursor_x + 1)
             /\ cursor_y' = (IF cursor_x + 1 < VGA_WIDTH \/ cursor_y = VGA_HEIGHT - 1
                             THEN cursor_y ELSE cursor_y + 1)]_vars

\* the grid after the step is the grid before it, moved up by one row with a
\* blank last row if the step scrolled
NoCellWritten ==
    IF vga_scrolls' = 0
    THEN vga_buffer' = vga_buffer
    ELSE /\ \A r \in 1 .. (VGA_HEIGHT - 1) : vga_buffer'[r] = vga_buffer[r + 1]
         /\ \A c \in 1 .. VGA_WIDTH :
                vga_buffer'[VGA_HEIGHT][c] = 32 + current_attr * 256

\* C25: vga_putchar('\b') changes no cell of the grid and moves the cursor back
\* by one position: from a column above 0 to the column before it on the same
\* row, from column 0 of a row above 0 to column 79 of the row before, and not
\* at all at (0,0).
C25_BackspaceMovesBackOnly ==
    [][(Called("vga_putchar") /\ vga_op'[2] = 8)
       => /\ vga_buffer' = vga_buffer
          /\ vga_scrolls' = 0
          /\ IF cursor_x > 0
             THEN cursor_x' = cursor_x - 1 /\ cursor_y' = cursor_y
             ELSE IF cursor_y > 0
             THEN cursor_x' = VGA_WIDTH - 1 /\ cursor_y' = cursor_y - 1
             ELSE cursor_x' = 0 /\ cursor_y' = 0]_vars

\* a backspace at column 0 of the last row has taken the cursor to the end of
\* row 23
C25_Witness ==
    /\ vga_op = <<"vga_putchar", 8>>
    /\ cursor_x = VGA_WIDTH - 1
    /\ cursor_y = VGA_HEIGHT - 2
    /\ ops = 2

\* the least multiple of 8 above x
NextTabStop(x) ==
    CHOOSE m \in 1 .. (VGA_WIDTH + 8) :
        m % 8 = 0 /\ m > x /\ \A n \in 1 .. (m - 1) : ~(n % 8 = 0 /\ n > x)

\* C26: vga_putchar('\t') writes no cell and moves the column to the next
\* multiple of 8 above the current column; from the columns 72 .. 79, where
\* that would be past the last column, the cursor goes to column 0 of the next
\* row, and the screen scrolls if that row would be 25.
C26_TabAdvancesToNextStop ==
    [][(Called("vga_putchar") /\ vga_op'[2] = 9)
       => /\ NoCellWritten
          /\ IF cursor_x \in 72 .. 79
             THEN /\ cursor_x' = 0
                  /\ IF cursor_y = VGA_HEIGHT - 1
                     THEN cursor_y' = VGA_HEIGHT - 1 /\ vga_scrolls' = 1
                     ELSE cursor_y' = cursor_y + 1 /\ vga_scrolls' = 0
             ELSE /\ cursor_x' = NextTabStop(cursor_x)
                  /\ cursor_y' = cursor_y
                  /\ vga_scrolls' = 0]_vars

\* a tab in the last eight columns of the last row has scrolled the screen and left the
\* cursor at the start of the last row
C26_Witness ==
    /\ vga_op = <<"vga_putchar", 9>>
    /\ vga_scrolls = 1
    /\ cursor_x = 0
    /\ cursor_y = VGA_HEIGHT - 1
    /\ HwCursor = (VGA_HEIGHT - 1) * VGA_WIDTH

\* C27: after vga_init and at the end of every public console operation the
\* cursor location in the CRT registers 0x0E and 0x0F is row * 80 + column of
\* the software cursor; every vga_putchar call updates the hardware cursor
\* exactly once, after the scroll if it makes one, also for a byte that
\* changes nothing.
C27_HardwareCursorFollows ==
    /\ [](HwCursor = cursor_y * VGA_WIDTH + cursor_x)
    /\ [][Called("vga_putchar") => vga_syncs' = 1]_vars

\* a newline on the last row has scrolled the screen and updated the hardware
\* cursor once, to the start of the last row
C27_Witness ==
    /\ vga_op = <<"vga_putchar", 10>>
    /\ vga_scrolls = 1
    /\ vga_syncs = 1
    /\ HwCursor = (VGA_HEIGHT - 1) * VGA_WIDTH
    /\ cursor_x = 0 /\ cursor_y = VGA_HEIGHT - 1

\* C34: after vga_init the bottom-right cell (column 79, row 24) holds a space
\* in every state: a vga_putchar of a printable character with the cursor
\* there wraps to row 25 and scrolls within the call, which takes the
\* character to row 23 and leaves row 24 blank in the current attribute.
C34_BottomRightCellIsSpace ==
    /\ [](vga_buffer[VGA_HEIGHT][VGA_WIDTH] % 256 = 32)
    /\ [][(/\ Called("vga_putchar")
           /\ vga_op'[2] \in 32 .. 126
           /\ <<cursor_x, cursor_y>> = <<VGA_WIDTH - 1, VGA_HEIGHT - 1>>)
          => /\ vga_scrolls' = 1
             /\ vga_buffer'[VGA_HEIGHT - 1][VGA_WIDTH]
                    = vga_make_entry(vga_op'[2], current_attr)
             /\ \A c \in 1 .. VGA_WIDTH :
                    vga_buffer'[VGA_HEIGHT][c] = vga_make_entry(32, current_attr)
             /\ <<cursor_x', cursor_y'>> = <<0, VGA_HEIGHT - 1>>]_vars

\* vga_putchar('A') with the cursor at (79,24) has scrolled the A up to row 23
C34_Witness ==
    /\ ops >= 2
    /\ vga_op = <<"vga_putchar", 65>>
    /\ vga_scrolls = 1
    /\ vga_buffer[VGA_HEIGHT - 1][VGA_WIDTH] % 256 = 65
    /\ <<cursor_x, cursor_y>> = <<0, VGA_HEIGHT - 1>>

(***************************************************************************)
(* Properties of the decoder (SpecKbd, SpecDet)                            *)
(***************************************************************************)
ModifierCodes == {42, 54, 29, 56}

SpecialCodes == {59, 60, 61, 62, 63, 64, 65, 66, 67, 68, 87, 88,
                 71, 72, 73, 75, 77, 79, 80, 81, 82, 83}

\* the scancode is a make code: a byte was read and its release bit is clear
IsMake(raw) == raw >= 1 /\ raw <= 127

\* the character the tables hold for a make code under the shift flag
LookedUp(shift, raw) ==
    IF shift THEN scancode_to_ascii_upper[raw + 1]
    ELSE scancode_to_ascii_lower[raw + 1]

\* the most recent scancode of a modifier, if any, was its make code
LastWasMake(last) == last # 0 /\ last < 128

C6_OnlyMakeOfNonModifierGivesEvent ==
    /\ (kb_scancode % 128 \in ModifierCodes \/ kb_scancode >= 128)
           => kb_result = KEY_NONE
    /\ kb_result # KEY_NONE
           => IsMake(kb_scancode) /\ kb_scancode \notin ModifierCodes

\* the break code of the key A was decoded with Shift held, and gave no event
C6_Witness ==
    /\ kb_scancode = 158
    /\ shift_pressed
    /\ kb_result = KEY_NONE

\* C7: for a make code that is looked up in the tables, with Ctrl active and a
\* lowercase letter x looked up the decoder returns x - 'a' + 1; with any
\* other character looked up it returns that character, whatever Ctrl is.
C7_CtrlFoldsLowercaseOnly ==
    (/\ IsMake(kb_scancode)
     /\ kb_scancode \notin ModifierCodes
     /\ kb_scancode \notin SpecialCodes
     /\ LookedUp(shift_pressed, kb_scancode) # 0)
    => LET x == LookedUp(shift_pressed, kb_scancode)
       IN  IF x >= 97 /\ x <= 122
           THEN kb_result = (IF ctrl_pressed THEN x - 97 + 1 ELSE x)
                /\ (ctrl_pressed => kb_result \in 1 .. 26)
           ELSE kb_result = x

\* Ctrl+B decoded to 2
C7_Witness ==
    /\ ctrl_pressed
    /\ ~shift_pressed
    /\ kb_scancode = 48
    /\ kb_result = 2

\* C8: the make code of a special key gives 0x100 | scancode whatever the
\* modifier flags are, also where the tables hold a keypad character; every
\* other scancode gives KEY_NONE or a character in 1 .. 0x7E, so that the
\* special codes are apart from both.
C8_SpecialKeysGiveSpecialCodes ==
    /\ kb_scancode \in SpecialCodes
           => kb_result = KEY_SPECIAL + kb_scancode /\ kb_result >= 256
    /\ kb_scancode \notin SpecialCodes => kb_result \in 0 .. 126

\* the Up arrow, where the tables hold the keypad 8, decoded with every
\* modifier held
C8_Witness ==
    /\ kb_scancode = 72
    /\ scancode_to_ascii_lower[73] = 56
    /\ shift_pressed /\ ctrl_pressed /\ alt_pressed
    /\ kb_result = KEY_UP

DecodableMake(shift, raw) ==
    /\ IsMake(raw)
    /\ raw \notin ModifierCodes
    /\ (raw \in SpecialCodes \/ LookedUp(shift, raw) # 0)

\* C10: keyboard_getchar returns only a value other than KEY_NONE, the one its
\* latest decode gave, with the modifier flags following every scancode read;
\* an iteration of its loop returns exactly when the scancode it read is a
\* decodable make code, and keeps waiting on every other scancode or none.
C10_GetcharReturnsFirstEvent ==
    /\ [](gc_pc = "ret" => /\ gc_ret # KEY_NONE
                           /\ gc_ret = kb_result
                           /\ shift_pressed = LastWasMake(last_shift)
                           /\ ctrl_pressed = LastWasMake(last_ctrl)
                           /\ alt_pressed = LastWasMake(last_alt))
    /\ [][gc_pc = "spin"
          => IF DecodableMake(shift_pressed, kb_scancode')
             THEN gc_pc' = "ret" /\ gc_ret' = kb_result'
             ELSE gc_pc' = "spin"]_vars

\* keyboard_getchar returned the key A as a capital after reading the make
\* code of Shift
C10_Witness ==
    /\ gc_pc = "ret"
    /\ gc_ret = 65
    /\ last_shift = 42
    /\ kb_scancode = 30

\* C30: keyboard_shift_pressed returns true exactly when at least one of the
\* two Shift keys had its make code decoded with no later break code of that
\* same key, however the make and break codes of the two keys interleave.
C30_ShiftPressedWhileEitherHeld ==
    keyboard_shift_pressed <=> shift_held # {}

(***************************************************************************)
(* Properties of the line editor (SpecShell)                               *)
(***************************************************************************)
Printable(c) == c >= 32 /\ c <= 126

\* the bytes buffer[0 .. n-1]
BufferPrefix(n) == [i \in 1 .. n |-> rl_buffer[i - 1]]

\* C2: for maxlen >= 2, shell_readline writes no index >= maxlen, and on its
\* return (by Enter or with the buffer full) the count n it returns is in
\* 0 .. maxlen-1 and buffer[n] = 0.
C2_ReadlineTerminatesInsideBuffer ==
    (rl_pc # "idle" /\ rl_maxlen >= 2)
    => /\ \A i \in DOMAIN rl_buffer : i >= rl_maxlen => rl_buffer[i] = Uninit
       /\ rl_pc = "ret" => /\ rl_ret >= 0
                           /\ rl_ret <= rl_maxlen - 1
                           /\ rl_buffer[rl_ret] = 0

\* shell_readline returned with the buffer full, its last key not Enter
C2_Witness ==
    /\ rl_pc = "ret"
    /\ rl_maxlen >= 3
    /\ rl_ret = rl_maxlen - 1
    /\ kb_result # KEY_ENTER

\* C3: the buffer holds the fold of the key events of the call, and so does
\* the line returned; its bytes are printable; a printable event is stored at
\* pos and echoed by one vga_putchar, and an event that is not printable, not
\* Backspace and not Enter changes neither the buffer, pos nor the console.
C3_LineIsFoldOfKeyEvents ==
    /\ [](rl_pc \in {"loop", "ret"}
          => /\ BufferPrefix(rl_pos) = rl_line
             /\ \A i \in 1 .. rl_pos : Printable(rl_buffer[i - 1]))
    /\ [](rl_pc = "ret" => rl_ret = Len(rl_line) /\ rl_buffer[rl_ret] = 0)
    /\ [][(rl_pc = "loop" /\ kb_result' # KEY_NONE)
          => IF Printable(kb_result')
             THEN /\ rl_pos' = rl_pos + 1
                  /\ rl_buffer'[rl_pos] = kb_result'
                  /\ vga_puts' = 1
                  /\ SetCon(vga_putchar(Con, kb_result'))
             ELSE IF kb_result' \in {KEY_BACKSPACE, KEY_ENTER}
             THEN rl_pos' = (IF kb_result' = KEY_BACKSPACE /\ rl_pos > 0
                             THEN rl_pos - 1 ELSE rl_pos)
             ELSE /\ vga_puts' = 0
                  /\ UNCHANGED <<vgaVars, rl_pos, rl_buffer, rl_pc>>]_vars

\* Enter returned the line "Aa"
C3_Witness ==
    /\ rl_pc = "ret"
    /\ kb_result = KEY_ENTER
    /\ rl_line = <<65, 97>>
    /\ rl_ret = 2

\* C4: a Backspace event with the buffer empty leaves pos at 0, issues no
\* vga_putchar and changes nothing of the console.
C4_BackspaceOnEmptyIsNoOp ==
    [][(rl_pc = "loop" /\ rl_pos = 0 /\ kb_result' = KEY_BACKSPACE)
       => /\ rl_pos' = 0
          /\ rl_pc' = "loop"
          /\ vga_puts' = 0
          /\ UNCHANGED <<vgaVars, rl_buffer>>]_vars

\* Backspace was the first key of the call
C4_Witness ==
    /\ rl_pc = "loop"
    /\ rl_pos = 0
    /\ kb_result = KEY_BACKSPACE
    /\ rl_line = <<>>
    /\ rl_buffer[0] = Uninit
    /\ vga_puts = 0

\* the cell before the cursor, the last of the row above when the cursor is
\* at column 0
CellBefore ==
    IF cursor_x > 0 THEN <<cursor_x - 1, cursor_y>> ELSE <<VGA_WIDTH - 1, cursor_y - 1>>

\* C33: inside shell_readline a Backspace with the buffer not empty finds the
\* cursor away from (0,0) and the last character echoed in the cell before
\* it; its three vga_putchar calls make no scroll, write (space, current
\* attribute) to that cell and to no other, and leave the cursor on it: one
\* position back, from column 0 to column 79 of the row above.
C33_EraseStepsBackOneCell ==
    [][(rl_pc = "loop" /\ rl_pos > 0 /\ kb_result' = KEY_BACKSPACE)
       => /\ ~(cursor_x = 0 /\ cursor_y = 0)
          /\ vga_buffer[CellBefore[2] + 1][CellBefore[1] + 1]
                 = vga_make_entry(rl_buffer[rl_pos - 1], current_attr)
          /\ vga_puts' = 3
          /\ vga_scrolls' = 0
          /\ vga_buffer' = WriteCell(vga_buffer, CellBefore[2] * VGA_WIDTH + CellBefore[1],
                                     vga_make_entry(32, current_attr))
          /\ <<cursor_x', cursor_y'>> = CellBefore
          /\ current_attr' = current_attr]_vars

\* an erase took the cursor from column 0 of the bottom row, where the scroll
\* of the last echo had left it, to the end of the row above
C33_Witness ==
    /\ rl_pc = "loop"
    /\ kb_result = KEY_BACKSPACE
    /\ vga_puts = 3
    /\ rl_pos = 1
    /\ <<cursor_x, cursor_y>> = <<VGA_WIDTH - 1, VGA_HEIGHT - 2>>
    /\ vga_buffer[VGA_HEIGHT - 1][VGA_WIDTH] = vga_make_entry(32, current_attr)

\* C32: whenever shell_readline returns, the last thing it sent to the
\* console is a newline, which leaves the cursor at column 0; this holds for
\* every key sequence, one that fills the buffer to maxlen-1 characters
\* included.
C32_ReadlineReturnsAfterNewline ==
    [][(rl_pc # "ret" /\ rl_pc' = "ret")
       => /\ vga_puts' = 1
          /\ SetCon(vga_putchar(Con, 10))
          /\ cursor_x' = 0]_vars

(***************************************************************************)
(* Properties of the parser (SpecParse)                                    *)
(***************************************************************************)
Whitespace == {32, 9, 10, 13, 12, 11}

TokenStarts(s) ==
    {i \in 1 .. Len(s) : s[i] \notin Whitespace /\ (i = 1 \/ s[i - 1] \in Whitespace)}

TokenEnds(s) ==
    {i \in 1 .. Len(s) :
         s[i] \notin Whitespace /\ (i = Len(s) \/ s[i + 1] \in Whitespace)}

\* the k-th smallest element of S
Nth(S, k) == CHOOSE x \in S : Cardinality({y \in S : y < x}) = k - 1

\* the maximal runs of non-whitespace bytes of s, from left to right
Tokens(s) ==
    [k \in 1 .. Cardinality(TokenStarts(s)) |->
         SubSeq(s, Nth(TokenStarts(s), k), Nth(TokenEnds(s), k))]

\* the line a call was given, without its terminator
LineOf(cmdline) == SubSeq(cmdline.obj, 1, Len(cmdline.obj) - 1)

\* argument k (from 0) of a parsed_cmd_t: where it starts and what it reads as
ArgStart(cmd, k) == cmd.argv[k + 1].obj

Arg(cmd, k) == StringAt(cmd.buffer, ArgStart(cmd, k))

\* the arguments argv[0 .. n-1] as a sequence of strings
Args(cmd, n) == [k \in 1 .. n |-> Arg(cmd, k - 1)]

\* parser_parse has returned from a call with both pointers set
Parsed == par_pc = "ret" /\ ~par_cmdline.null /\ ~par_cmd.null

\* C11: for a line of at most 255 bytes with at most 16 tokens, argv[0..argc-1]
\* are exactly the maximal runs of non-whitespace bytes of the line, in order;
\* each argument is non-empty, holds no whitespace, ends with a terminator
\* inside the 256-byte buffer, and no two arguments (terminators included)
\* overlap.
C11_ArgumentsAreTheTokens ==
    (/\ Parsed
     /\ Len(LineOf(par_cmdline)) <= SHELL_MAX_CMD_LEN - 1
     /\ Cardinality(TokenStarts(LineOf(par_cmdline))) <= SHELL_MAX_ARGS)
    => LET cmd == par_cmd.obj
           toks == Tokens(LineOf(par_cmdline))
       IN  /\ cmd.argc = Len(toks)
           /\ \A k \in 0 .. (cmd.argc - 1) :
                  /\ ~cmd.argv[k + 1].null
                  /\ ArgStart(cmd, k) \in 0 .. (SHELL_MAX_CMD_LEN - 1)
                  /\ Arg(cmd, k) = toks[k + 1]
                  /\ Arg(cmd, k) # <<>>
                  /\ \A i \in 1 .. Len(Arg(cmd, k)) : Arg(cmd, k)[i] \notin Whitespace
                  /\ ArgStart(cmd, k) + Len(Arg(cmd, k)) <= SHELL_MAX_CMD_LEN - 1
                  /\ cmd.buffer[ArgStart(cmd, k) + Len(Arg(cmd, k)) + 1] = 0
           /\ \A j, k \in 0 .. (cmd.argc - 1) :
                  j < k => ArgStart(cmd, j) + Len(Arg(cmd, j)) < ArgStart(cmd, k)

\* "  echo   hi  " was parsed into argc = 2, "echo" and "hi"
C11_Witness ==
    /\ Parsed
    /\ LineOf(par_cmdline) = EchoHiLine
    /\ par_cmd.obj.argc = 2
    /\ Args(par_cmd.obj, 2) = <<<<101, 99, 104, 111>>, <<104, 105>>>>

\* the first n elements of a sequence
Take(seq, n) == [k \in 1 .. n |-> seq[k]]

\* C12 as stated: for every input 0 <= argc <= 16 and argv is never written at
\* index 16 or above; when the input has more than 16 tokens, the arguments are
\* exactly its first 16 tokens and the call returns success.
C12_FirstSixteenTokensOfAnyInput ==
    Parsed
    => LET cmd == par_cmd.obj
           line == LineOf(par_cmdline)
       IN  /\ cmd.argc \in 0 .. SHELL_MAX_ARGS
           /\ Len(cmd.argv) = SHELL_MAX_ARGS
           /\ Cardinality(TokenStarts(line)) > SHELL_MAX_ARGS
              => /\ par_ret = TRUE
                 /\ cmd.argc = SHELL_MAX_ARGS
                 /\ Args(cmd, SHELL_MAX_ARGS) = Take(Tokens(line), SHELL_MAX_ARGS)

\* C12, amended: for every input 0 <= argc <= 16 and argv is never written at
\* index 16 or above; when the input has more than 16 tokens and its 16th
\* token ends within its first 255 bytes, the arguments are exactly its first
\* 16 tokens (argv[15] is the 16th token alone), the rest is dropped and the
\* call returns success.
C12_FirstSixteenTokensWithinBuffer ==
    Parsed
    => LET cmd == par_cmd.obj
           line == LineOf(par_cmdline)
       IN  /\ cmd.argc \in 0 .. SHELL_MAX_ARGS
           /\ Len(cmd.argv) = SHELL_MAX_ARGS
           /\ (/\ Cardinality(TokenStarts(line)) > SHELL_MAX_ARGS
               /\ Nth(TokenEnds(line), SHELL_MAX_ARGS) <= SHELL_MAX_CMD_LEN - 1)
              => /\ par_ret = TRUE
                 /\ cmd.argc = SHELL_MAX_ARGS
                 /\ Args(cmd, SHELL_MAX_ARGS) = Take(Tokens(line), SHELL_MAX_ARGS)

\* a line of 18 tokens in fewer than 255 bytes was parsed into 16 arguments,
\* the last of them one token long
C12_Witness ==
    /\ Parsed
    /\ Cardinality(TokenStarts(LineOf(par_cmdline))) = 18
    /\ Len(LineOf(par_cmdline)) < SHELL_MAX_CMD_LEN - 1
    /\ par_cmd.obj.argc = SHELL_MAX_ARGS
    /\ Arg(par_cmd.obj, SHELL_MAX_ARGS - 1) = Tokens(LineOf(par_cmdline))[SHELL_MAX_ARGS]
    /\ par_ret = TRUE

\* C13: parser_parse returns failure exactly when cmdline or cmd is NULL; for
\* every other call (empty, whitespace-only, overlong, more than 16 tokens) it
\* returns success, and a line without a token yields argc = 0.
C13_FailsOnlyOnNull ==
    par_pc = "ret"
    => /\ par_ret = FALSE <=> (par_cmdline.null \/ par_cmd.null)
       /\ (Parsed /\ TokenStarts(LineOf(par_cmdline)) = {})
          => par_ret = TRUE /\ par_cmd.obj.argc = 0

\* a line of a space and a tab was parsed: success, no argument
C13_Witness ==
    /\ Parsed
    /\ LineOf(par_cmdline) = <<32, 9>>
    /\ par_ret = TRUE
    /\ par_cmd.obj.argc = 0

\* the smaller of two numbers
Min(a, b) == IF a < b THEN a ELSE b

\* C14: for a line of more than 255 bytes the call returns success, the buffer
\* holds only bytes of the line's first 255 bytes or terminators, nothing is
\* written past the 256 bytes of the buffer, and argc and the arguments are
\* those of the 255-byte prefix: its tokens, and what parsing the prefix gives.
C14_OverlongLineParsedAsPrefix ==
    (Parsed /\ Len(LineOf(par_cmdline)) > SHELL_MAX_CMD_LEN - 1)
    => LET cmd == par_cmd.obj
           prefix == Take(LineOf(par_cmdline), SHELL_MAX_CMD_LEN - 1)
           n == Min(Cardinality(TokenStarts(prefix)), SHELL_MAX_ARGS)
       IN  /\ par_ret = TRUE
           /\ Len(cmd.buffer) = SHELL_MAX_CMD_LEN
           /\ cmd.buffer[SHELL_MAX_CMD_LEN] = 0
           /\ \A k \in 1 .. (SHELL_MAX_CMD_LEN - 1) : cmd.buffer[k] \in {prefix[k], 0}
           /\ cmd.argc = n
           /\ Args(cmd, n) = Take(Tokens(prefix), n)
           /\ par_cmd = parser_parse(Ref(CString(prefix)), Ref(UninitCmd)).cmd

\* a line of one token of 257 bytes was parsed into one argument of 255 bytes
C14_Witness ==
    /\ Parsed
    /\ LineOf(par_cmdline) = Rep(<<97>>, 257)
    /\ par_ret = TRUE
    /\ par_cmd.obj.argc = 1
    /\ Len(Arg(par_cmd.obj, 0)) = SHELL_MAX_CMD_LEN - 1

(***************************************************************************)
(* Properties of the command table (SpecReg)                               *)
(***************************************************************************)
\* the entries in use when the table holds n
Entries(cmds, n) == [k \in 1 .. n |-> cmds[k]]

\* C15: the table never holds more than 32 entries and nothing is stored
\* outside its 32 slots; a shell_register_command made with fewer than 32
\* entries stores its (name, help, handler) in the next slot and changes no
\* other slot; one made with 32 entries changes nothing, the console included;
\* no operation removes or rewrites an entry in use.
C15_RegistryAppendOnlyBounded ==
    /\ [](num_commands \in 0 .. MAX_COMMANDS /\ Len(commands) = MAX_COMMANDS)
    /\ [][/\ num_commands' >= num_commands
          /\ Entries(commands', num_commands) = Entries(commands, num_commands)
          /\ regs' = regs => UNCHANGED regVars
          /\ regs' = regs + 1
             => IF num_commands < MAX_COMMANDS
                THEN /\ num_commands' = num_commands + 1
                     /\ commands' = [commands EXCEPT ![num_commands + 1] =
                                         [name |-> reg_op'[2], help |-> reg_op'[3],
                                          handler |-> reg_op'[4]]]
                ELSE UNCHANGED <<regVars, vgaVars>>]_vars

\* shell_register_command was called on a table that 32 earlier registrations
\* had filled
C15_Witness ==
    /\ num_commands = MAX_COMMANDS
    /\ commands[MAX_COMMANDS].help = Ref(CString(<<51, 49>>))
    /\ regs >= 1
    /\ reg_op[1] = "register"

\* the name of entry i, as a string
NameOf(i) == StringAt(commands[i + 1].name.obj, 0)

\* C16: shell_find_command(name) returns the entry of lowest index whose name
\* equals name byte for byte, and NULL exactly when no entry in use has that
\* name.
C16_FindFirstExactMatch ==
    (reg_op # <<>> /\ reg_op[1] = "find")
    => LET name == LineOf(reg_op[2])
           matches == {i \in 0 .. (num_commands - 1) : NameOf(i) = name}
       IN  IF matches = {}
           THEN find_ret = NULL
           ELSE /\ ~find_ret.null
                /\ find_ret.obj \in matches
                /\ \A i \in matches : find_ret.obj <= i

\* "echo" was looked up in a table that holds it at index 2 and again later:
\* the entry at index 2 was returned
C16_Witness ==
    /\ reg_op # <<>>
    /\ reg_op[1] = "find"
    /\ LineOf(reg_op[2]) = NameEcho
    /\ find_ret = Ref(2)
    /\ \E i \in 3 .. (num_commands - 1) : NameOf(i) = NameEcho

(***************************************************************************)
(* Properties of shell_execute and shell_run (SpecRepl)                    *)
(***************************************************************************)
\* shell_execute has just returned to shell_run
Executed == sh_pc = "prompt" /\ ~exec_line.null

\* the indices of the entries in use whose name is name
Matching(name) == {i \in 0 .. (num_commands - 1) : NameOf(i) = name}

\* the bytes a sequence of console calls writes with vga_putchar
Written(out) ==
    LET putchars == {k \in 1 .. Len(out) : out[k][1] = "vga_putchar"}
    IN  [k \in 1 .. Cardinality(putchars) |-> out[Nth(putchars, k)][2]]

\* text occurs in s as a run of consecutive bytes
Occurs(text, s) ==
    \E i \in 0 .. (Len(s) - Len(text)) : SubSeq(s, i + 1, i + Len(text)) = text

\* "Unknown command"
TextUnknownCommand ==
    <<85, 110, 107, 110, 111, 119, 110, 32, 99, 111, 109, 109, 97, 110, 100>>

\* C17: for a line whose first token is a registered name, shell_execute calls
\* the handler of the matching entry exactly once, with argc the number of
\* tokens capped at 16 and argv the tokens in order, argv[0] the command name;
\* it calls no other handler and prints no "Unknown command" text.
C17_DispatchesToMatchingHandler ==
    LET toks == Tokens(LineOf(exec_line))
    IN  (Executed /\ toks # <<>> /\ Matching(toks[1]) # {})
        => /\ Len(sh_calls) = 1
           /\ sh_calls[1].handler = commands[First(Matching(toks[1])) + 1].handler
           /\ sh_calls[1].argc = Min(Len(toks), SHELL_MAX_ARGS)
           /\ sh_calls[1].argv = Take(toks, Min(Len(toks), SHELL_MAX_ARGS))
           /\ sh_calls[1].argv[1] = NameOf(First(Matching(toks[1])))
           /\ ~Occurs(TextUnknownCommand, Written(sh_out))

\* "echo hi there" was executed with "echo" registered: cmd_echo was called
\* once with argc = 3 and "echo", "hi", "there"
C17_Witness ==
    /\ Executed
    /\ LineOf(exec_line) = NameEcho \o <<32, 104, 105, 32, 116, 104, 101, 114, 101>>
    /\ sh_calls = <<[handler |-> Ref("cmd_echo"), argc |-> 3,
                     argv |-> <<NameEcho, <<104, 105>>, <<116, 104, 101, 114, 101>>>>]>>

\* the calls of vga_putchar that write text
Putchars(text) == [k \in 1 .. Len(text) |-> <<"vga_putchar", text[k]>>]

\* "Type 'help' for available commands." and a newline
TextHint ==
    <<84, 121, 112, 101, 32, 39, 104, 101, 108, 112, 39, 32, 102, 111, 114, 32, 97,
    118, 97, 105, 108, 97, 98, 108, 101, 32, 99, 111, 109, 109, 97, 110, 100, 115,
    46, 10>>

\* the line has a first token and no entry in use has it as its name
UnknownLine(line) ==
    /\ ~line.null
    /\ Tokens(LineOf(line)) # <<>>
    /\ Matching(Tokens(LineOf(line))[1]) = {}

\* C18: for a line whose first token matches no registered name, shell_execute
\* calls no handler, prints "Unknown command: ", the first token, a newline and
\* the hint "Type 'help' for available commands.", leaves the registry as it
\* was and returns; shell_run then prints the next prompt and shell_readline
\* waits for the keys of the next line.
C18_UnknownCommandReportedAndLoopGoesOn ==
    /\ []((Executed /\ UnknownLine(exec_line))
          => /\ sh_calls = <<>>
             /\ sh_out = Putchars(TextUnknownCommand \o <<58, 32>>
                                  \o Tokens(LineOf(exec_line))[1] \o <<10>>
                                  \o TextHint))
    /\ [][(sh_pc = "execute" /\ UnknownLine(exec_line'))
          => (UNCHANGED regVars /\ sh_pc' = "prompt")]_vars
    /\ [][(Executed /\ UnknownLine(exec_line))
          => /\ sh_pc' = "read"
             /\ rl_pc' = "loop"
             /\ rl_pos' = 0
             /\ Written(sh_out') = SHELL_PROMPT]_vars
    /\ ((Executed /\ UnknownLine(exec_line)) ~> (sh_pc = "read" /\ rl_pc = "loop"))

\* "foo" was executed and reported, and shell_readline has taken the first
\* keys of the line after it
C18_Witness ==
    /\ ~exec_line.null
    /\ LineOf(exec_line) = <<102, 111, 111>>
    /\ sh_calls = <<>>
    /\ sh_pc = "read"
    /\ rl_pos > 0
    /\ sh_lines = 2

\* the line holds no token: it is empty or all whitespace
BlankLine(line) == ~line.null /\ Tokens(LineOf(line)) = <<>>

\* C19: shell_execute on an empty or whitespace-only line does nothing: it
\* calls no handler, makes no console call, and the console grid, the cursor,
\* the attribute and the registry are as they were before the call.
C19_BlankLineIsNoOp ==
    [][(sh_pc = "execute" /\ BlankLine(exec_line'))
       => /\ sh_calls' = <<>>
          /\ sh_out' = <<>>
          /\ UNCHANGED <<vga_buffer, cursor_x, cursor_y, current_attr>>
          /\ UNCHANGED <<crt_index, crt_regs>>
          /\ UNCHANGED <<commands, num_commands>>]_vars

\* the line of two spaces was executed after a line that had printed
\* something: nothing was called or printed for it
C19_Witness ==
    /\ Executed
    /\ LineOf(exec_line) = <<32, 32>>
    /\ sh_lines = 2
    /\ sh_calls = <<>>
    /\ sh_out = <<>>

\* the names of the entries in use, in the order of the table
Names == [k \in 1 .. num_commands |-> NameOf(k - 1)]

\* "Welcome to Squirel OS v"
TextWelcome ==
    <<87, 101, 108, 99, 111, 109, 101, 32, 116, 111, 32, 83, 113, 117, 105, 114,
    101, 108, 32, 79, 83, 32, 118>>

\* what shell_run prints before its loop: the banner, an empty line, the
\* welcome with the version, the hint and an empty line
TextBanner ==
    Join(BannerFormats) \o <<10>> \o TextWelcome \o SQUIREL_VERSION_STRING \o <<10>>
    \o TextHint \o <<10>>

\* C20: shell_run registers the built-in commands and prints the banner once,
\* then goes round PROMPT, READ, EXECUTE and PROMPT again for ever: every read
\* follows one prompt, every read that returns is followed by one execute of
\* the line that was read, every execute is followed by a prompt, and no
\* position in the loop leaves it.
C20_ReplCyclesForever ==
    /\ [](sh_pc \in {"init", "prompt", "read", "execute"})
    /\ [][sh_pc' # sh_pc
          => <<sh_pc, sh_pc'>> \in {<<"init", "prompt">>, <<"prompt", "read">>,
                                    <<"read", "execute">>, <<"execute", "prompt">>}]_vars
    /\ [][sh_pc = "init"
          => /\ sh_pc' = "prompt"
             /\ Names' = <<NameHelp, NameClear, NameEcho, NameInfo>>
             /\ Written(sh_out') = TextBanner]_vars
    /\ [][sh_pc # "init" => UNCHANGED <<commands, num_commands>>]_vars
    /\ [][sh_pc = "prompt"
          => /\ sh_pc' = "read"
             /\ Written(sh_out') = SHELL_PROMPT
             /\ rl_pc' = "loop"
             /\ rl_pos' = 0]_vars
    /\ [][(sh_pc = "read" /\ sh_pc' = "execute")
          => (rl_pc' = "ret" /\ rl_ret' = Len(rl_line'))]_vars
    /\ [][sh_pc = "execute"
          => (sh_pc' = "prompt" /\ LineOf(exec_line') = rl_line)]_vars
    /\ ((sh_pc = "init") ~> (sh_pc = "prompt"))
    /\ ((sh_pc = "prompt") ~> (sh_pc = "read"))
    /\ ((sh_pc = "execute") ~> (sh_pc = "prompt"))

\* the second line has been read after the first was executed and the prompt
\* printed again, and shell_run is about to execute it
C20_Witness ==
    /\ sh_pc = "execute"
    /\ ~exec_line.null
    /\ sh_lines = 2
    /\ rl_pc = "ret"
    /\ Written(sh_out) = SHELL_PROMPT

\* C35: whenever shell_run is reading a line the current attribute is light
\* gray on black (0x07), whatever the handler executed before and the green
\* prompt set: every character the line editor echoes is written as
\* vga_putchar writes it with attribute 0x07.
C35_ReadsInLightGray ==
    /\ [](sh_pc = "read" => current_attr = vga_make_attr(VGA_LIGHT_GRAY, VGA_BLACK))
    /\ [][(sh_pc = "read" /\ rl_pc = "loop" /\ Printable(kb_result'))
          => /\ vga_puts' = 1
             /\ SetCon(vga_putchar(
                    [Con EXCEPT !.attr = vga_make_attr(VGA_LIGHT_GRAY, VGA_BLACK)],
                    kb_result'))]_vars

\* the f of a second line was echoed after cmd_info, which sets yellow, ran
\* for the first and the prompt was printed in green
C35_Witness ==
    /\ sh_pc = "read"
    /\ sh_lines = 2
    /\ Len(sh_calls) = 1
    /\ sh_calls[1].handler = Ref("cmd_info")
    /\ \E k \in DOMAIN sh_out : sh_out[k] = <<"vga_set_color", VGA_LIGHT_GREEN, VGA_BLACK>>
    /\ kb_result = 102
    /\ vga_puts = 1
    /\ current_attr = 7

(***************************************************************************)
(* Properties of scrolling (SpecScroll)                                    *)
(***************************************************************************)
\* the grid SpecScroll starts with
MarkedGrid == MarkedCon(<<VGA_LIGHT_GRAY, VGA_BLACK>>).buf

\* a row of spaces in the current attribute
BlankRow == [c \in 1 .. VGA_WIDTH |-> 32 + current_attr * 256]

\* a row holding the byte b in the current attribute in every cell
FullRow(b) == [c \in 1 .. VGA_WIDTH |-> b + current_attr * 256]

\* the rows k .. 23 of the first grid are the rows 0 .. 23 - k of the grid now
MovedUp(k) == \A r \in 1 .. (VGA_HEIGHT - 1 - k) : vga_buffer[r] = MarkedGrid[r + k]

\* the row the cursor started on has been filled and then b was written
FilledThen(b) == ops = VGA_WIDTH + 1 /\ vga_op = <<"vga_putchar", b>>

\* C21 as stated: filling the last row and then writing one more character, a
\* newline or a printable one, makes one scroll in total: every row has moved
\* up by one, the bottom row is blank (but for the character just written),
\* and the cursor is on the last row at column 0 after a newline and at
\* column 1 after a printable character.
C21_OneScrollAfterFullRow ==
    \A b \in {10, 65} :
        FilledThen(b)
        => /\ MovedUp(1)
           /\ \E f \in FillBytes : vga_buffer[VGA_HEIGHT - 1] = FullRow(f)
           /\ \A c \in 1 .. VGA_WIDTH :
                  (b = 65 /\ c = 1) \/ vga_buffer[VGA_HEIGHT][c] = BlankRow[c]
           /\ cursor_y = VGA_HEIGHT - 1
           /\ cursor_x = (IF b = 10 THEN 0 ELSE 1)

\* C21, amended: no scroll happens while the first 79 cells of the last row
\* are written; writing its last cell makes one scroll at once (every row has
\* moved up by one, the bottom row is blank, the cursor is at column 0 of the
\* last row).  One more character then: a newline makes a second scroll and
\* leaves the cursor at column 0 of the blank last row; a printable character
\* makes no further scroll, is written at column 0 of the last row and leaves
\* the cursor at column 1.
C21_ScrollWhenLastCellWritten ==
    /\ (Filling /\ ops < VGA_WIDTH)
       => /\ vga_scrolls = 0
          /\ MovedUp(0)
          /\ cursor_x = ops /\ cursor_y = VGA_HEIGHT - 1
    /\ (Filling /\ ops = VGA_WIDTH)
       => /\ vga_scrolls = 1
          /\ MovedUp(1)
          /\ \E f \in FillBytes : vga_buffer[VGA_HEIGHT - 1] = FullRow(f)
          /\ vga_buffer[VGA_HEIGHT] = BlankRow
          /\ cursor_x = 0 /\ cursor_y = VGA_HEIGHT - 1
    /\ FilledThen(10)
       => /\ vga_scrolls = 1
          /\ MovedUp(2)
          /\ \E f \in FillBytes : vga_buffer[VGA_HEIGHT - 2] = FullRow(f)
          /\ vga_buffer[VGA_HEIGHT - 1] = BlankRow
          /\ vga_buffer[VGA_HEIGHT] = BlankRow
          /\ cursor_x = 0 /\ cursor_y = VGA_HEIGHT - 1
    /\ FilledThen(65)
       => /\ vga_scrolls = 0
          /\ MovedUp(1)
          /\ \E f \in FillBytes : vga_buffer[VGA_HEIGHT - 1] = FullRow(f)
          /\ vga_buffer[VGA_HEIGHT] = [BlankRow EXCEPT ![1] = 65 + current_attr * 256]
          /\ cursor_x = 1 /\ cursor_y = VGA_HEIGHT - 1

\* the last row was filled and a newline written: the row that was row 2 at
\* the start is row 0, the filled row is row 22
C21_Witness ==
    /\ FilledThen(10)
    /\ vga_buffer[1] = MarkedGrid[3]
    /\ vga_buffer[1][1] % 256 = 67
    /\ vga_buffer[VGA_HEIGHT - 2] = FullRow(88)

\* C28: vga_scroll moves every row 1 .. 24, characters and attributes as
\* they are, to the row above it, which discards the old row 0, fills row 24
\* with spaces in the current attribute, and leaves the cursor and the current
\* attribute as they were.
C28_ScrollMovesRowsUp ==
    [][Called("vga_scroll")
       => /\ \A r \in 1 .. (VGA_HEIGHT - 1) : vga_buffer'[r] = vga_buffer[r + 1]
          /\ \A c \in 1 .. VGA_WIDTH :
                 vga_buffer'[VGA_HEIGHT][c] = 32 + current_attr * 256
          /\ UNCHANGED <<cursor_x, cursor_y, current_attr>>]_vars

\* vga_scroll was called with yellow on blue set and half of the last row
\* written: the letter B of row 1 is on row 0 in its own colour, the half row
\* is on row 23, the last row is blank in yellow on blue, the cursor is still
\* at column 40 of the last row
C28_Witness ==
    /\ vga_op = <<"vga_scroll">>
    /\ current_attr = 30
    /\ vga_buffer[1] = MarkedGrid[2]
    /\ vga_buffer[1][1] = 66 + (RowColor(1)[2] * 16 + RowColor(1)[1]) * 256
    /\ vga_buffer[VGA_HEIGHT - 1][40] = 88 + 30 * 256
    /\ vga_buffer[VGA_HEIGHT - 1][41] = 32 + 7 * 256
    /\ vga_buffer[VGA_HEIGHT] = BlankRow
    /\ cursor_x = 40 /\ cursor_y = VGA_HEIGHT - 1


(***************************************************************************)
(* Properties of keyboard_init (SpecKbdInit)                               *)
(***************************************************************************)
StatusRead(e) == e[1] = "inb" /\ e[2] = KEYBOARD_STATUS_PORT

DataRead(e) == e[1] = "inb" /\ e[2] = KEYBOARD_DATA_PORT

PortWrite(e) == e[1] = "outb"

\* the places of io_log with an access of the kind given
Places(Kind(_)) == {i \in DOMAIN io_log : Kind(io_log[i])}

\* the access before place i was a read of the status with the bit set or clear
AfterStatus(i, bit, set) ==
    /\ i > 1
    /\ StatusRead(io_log[i - 1])
    /\ ((io_log[i - 1][3] \div bit) % 2 = 1) <=> set

\* the accesses of keyboard_init so far are the start of: reads of the data
\* port, each after a status read with bit 0 set, until a status read has it
\* clear; 0xAE written to port 0x64; 0xF4 written to port 0x60; exactly one
\* read of the data port, after a status read with bit 0 set; and each write
\* comes right after a status read with bit 1 clear
InitOrder ==
    LET writes == Places(PortWrite)
        reads == Places(DataRead)
        first == IF writes = {} THEN Len(io_log) + 1
                 ELSE CHOOSE i \in writes : \A j \in writes : i <= j
        second == IF Cardinality(writes) < 2 THEN Len(io_log) + 1
                  ELSE CHOOSE i \in writes : \A j \in writes : j <= i
    IN  /\ Cardinality(writes) <= 2
        /\ writes # {} =>
               /\ io_log[first] = <<"outb", KEYBOARD_STATUS_PORT, 174>>
               /\ \E j \in 1 .. (first - 1) :
                      /\ StatusRead(io_log[j])
                      /\ io_log[j][3] % 2 = 0
                      /\ \A i \in reads : i < j \/ i > first
        /\ Cardinality(writes) = 2 =>
               io_log[second] = <<"outb", KEYBOARD_DATA_PORT, 244>>
        /\ \A i \in writes : AfterStatus(i, 2, FALSE)
        /\ \A i \in reads : AfterStatus(i, 1, TRUE) /\ (i < first \/ i > second)
        /\ Cardinality({i \in reads : i > second}) <= 1
        /\ ki_pc = "done" =>
               /\ Cardinality(writes) = 2
               /\ Len(io_log) \in reads

\* the one byte keyboard_init read after its writes was the acknowledgment, and
\* no decode was given the acknowledgment as its scancode
AckConsumed ==
    /\ ki_pc = "done" => io_log[Len(io_log)][3] = 250
    /\ kb_scancode # 250

\* C29: keyboard_init makes its port accesses in this order: it reads and drops
\* bytes of the data port while status bit 0 is set, writes 0xAE to port 0x64,
\* writes 0xF4 to port 0x60, waits for status bit 0 and reads exactly one byte
\* of port 0x60; each write follows a status read with bit 1 clear; and that
\* one byte is the acknowledgment, which no decode ever gets as a scancode.
C29_InitOrderAndAckConsumed == InitOrder /\ AckConsumed


(***************************************************************************)
(* Properties of cmd_color (SpecColor)                                     *)
(***************************************************************************)
\* the number a string of digits denotes, or 16 when it denotes more than 15
RECURSIVE Decimal(_)
Decimal(a) ==
    IF a = <<>> THEN 0
    ELSE LET n == Decimal(SubSeq(a, 1, Len(a) - 1)) * 10 + (a[Len(a)] - 48)
         IN  IF n > 15 THEN 16 ELSE n

Named(a) == {i \in 1 .. Len(color_names) : color_names[i][1] = a}

\* a is a known color name or a decimal number with a value in 0 .. 15
ValidColor(a) ==
    \/ Named(a) # {}
    \/ a # <<>> /\ (\A k \in 1 .. Len(a) : a[k] \in 48 .. 57) /\ Decimal(a) <= 15

\* the color a valid argument names
ColorOf(a) == IF Named(a) # {} THEN color_names[First(Named(a))][2] ELSE Decimal(a)

\* C31: a cmd_color given color arguments sets the attribute (to the colors
\* named) if and only if each of them is a known color name or a decimal
\* number with a value in 0 .. 15; with any other argument, a number above 15
\* of any length included, it prints "Error: Invalid color '<arg>'" for the
\* first such argument and nothing else, leaves the attribute as it was, also
\* when only the background is invalid, and returns.
C31_ColorSetOnlyByValidArguments ==
    [][Called("cmd_color") /\ Len(vga_op'[2]) >= 2
       => LET argv == vga_op'[2]
              supplied == {k \in 2 .. Len(argv) : k <= 3}
              bad == {k \in supplied : ~ValidColor(argv[k])}
          IN  IF bad = {}
              THEN current_attr' =
                       vga_make_attr(ColorOf(argv[2]),
                                     IF Len(argv) >= 3 THEN ColorOf(argv[3])
                                     ELSE VGA_BLACK)
              ELSE /\ sh_out' = kprintf(FmtColorInvalid,
                                        <<Ref(CString(argv[First(bad)]))>>)
                   /\ current_attr' = current_attr]_vars


(***************************************************************************)
(* Properties of shell_run under key scripts (SpecScript)                  *)
(***************************************************************************)
\* the line shell_readline has left in the array of shell_run
LineRead == StringAt(LineMemory, 0)

\* C36: every line shell_run passes from shell_readline to shell_execute is at
\* most 255 bytes long and holds only bytes 0x20 .. 0x7E, so that parser_parse
\* copies it whole (its truncation at 256 is not taken) and no whitespace but
\* the space is in it to separate arguments.
C36_LinesExecutedArePrintableAndShort ==
    sh_pc = "execute"
    => /\ Len(LineRead) <= SHELL_MAX_CMD_LEN - 1
       /\ \A k \in 1 .. Len(LineRead) : LineRead[k] \in 32 .. 126
       /\ copy_len(Len(LineRead)) = Len(LineRead)
       /\ \A k \in 1 .. Len(LineRead) : isspace(LineRead[k]) => LineRead[k] = 32

\* a line of 255 bytes, returned with the buffer full, is about to be executed
C36_Witness ==
    /\ sh_pc = "execute"
    /\ Len(LineRead) = SHELL_MAX_CMD_LEN - 1
    /\ kb_result # KEY_ENTER

\* The step of shell_run that takes the make code of a letter key from the
\* keyboard while the line editor waits, ctrl is active and shift is not.
CtrlLetterStep ==
    /\ sh_pc = "read"
    /\ rl_pc = "loop"
    /\ kb_pending # <<>>
    /\ kb_pending' = Tail(kb_pending)
    /\ ctrl_pressed
    /\ ~shift_pressed
    /\ Head(kb_pending) < 128
    /\ scancode_to_ascii_lower[Head(kb_pending) + 1] \in 97 .. 122

CtrlCode == scancode_to_ascii_lower[Head(kb_pending) + 1] - 96

\* What the Enter key does to the line editor and the console.
EndsLine ==
    /\ rl_pc' = "ret"
    /\ rl_ret' = rl_pos
    /\ rl_pos' = rl_pos
    /\ rl_buffer' = [rl_buffer EXCEPT ![rl_pos] = 0]
    /\ vga_puts' = 1
    /\ SetCon(vga_putchar(Con, 10))
    /\ sh_pc' = "execute"

\* What the Backspace key does to the line editor and the console.
ErasesOne ==
    /\ rl_pc' = "loop"
    /\ rl_buffer' = rl_buffer
    /\ IF rl_pos > 0
       THEN /\ rl_pos' = rl_pos - 1
            /\ vga_puts' = 3
            /\ SetCon(vga_putchar(vga_putchar(vga_putchar(Con, 8), 32), 8))
       ELSE /\ rl_pos' = rl_pos
            /\ vga_puts' = 0
            /\ UNCHANGED vgaVars

\* C37: with ctrl active and shift inactive, the key j decodes to 10 and ends
\* the line as Enter does, the key h decodes to 8 and erases as Backspace
\* does, and every other letter decodes to a code of 1..26 that the line
\* editor ignores, leaving the buffer and the console as they were.
C37_CtrlLettersActAsEditingKeys ==
    [][CtrlLetterStep
       => /\ kb_result' = CtrlCode
          /\ CtrlCode = 10 => EndsLine
          /\ CtrlCode = 8 => ErasesOne
          /\ CtrlCode \notin {8, 10}
             => /\ kb_result' \in 1 .. 26
                /\ vga_puts' = 0
                /\ UNCHANGED <<vgaVars, rl_pc, rl_pos, rl_buffer>>]_vars

C37_Witness ==
    /\ sh_pc = "execute"
    /\ LineRead = <<97, 99>>
    /\ kb_result = 10
    /\ kb_scancode = ScancodeOf(106)
    /\ ctrl_pressed
    /\ ~shift_pressed

\* the handlers of the entries in use, in the order of the table
Handlers == [k \in 1 .. num_commands |-> commands[k].handler.obj]

\* the line executed last has name as its first token
Ran(name) ==
    /\ Executed
    /\ Tokens(LineOf(exec_line)) # <<>>
    /\ Tokens(LineOf(exec_line))[1] = name

\* C39: from the end of shell_run's initialization on, the registry holds the
\* four entries help, clear, echo, info in this order; cmd_color and
\* cmd_memdump are in no entry and are never called, and a line whose first
\* token is "color" or "memdump" is answered as an unknown command.
C39_RegistryHoldsTheFourBuiltins ==
    /\ sh_pc # "init"
       => /\ num_commands = 4
          /\ Names = <<NameHelp, NameClear, NameEcho, NameInfo>>
          /\ Handlers = <<"cmd_help", "cmd_clear", "cmd_echo", "cmd_info">>
    /\ \A k \in 1 .. Len(sh_calls) :
           sh_calls[k].handler.obj \notin {"cmd_color", "cmd_memdump"}
    /\ \A name \in {NameColor, NameMemdump} :
           Ran(name)
           => /\ sh_calls = <<>>
              /\ sh_out = Putchars(TextUnknownCommand \o <<58, 32>> \o name
                                   \o <<10>> \o TextHint)

\* "color red" was executed with the four entries in the table
C39_Witness ==
    /\ Ran(NameColor)
    /\ LineOf(exec_line) = NameColor \o <<32, 114, 101, 100>>
    /\ num_commands = 4
    /\ sh_calls = <<>>


(***************************************************************************)
(* Properties of the decoder on two streams (SpecAlt)                      *)
(***************************************************************************)
\* C38: two scancode streams that differ only by alt make and break codes
\* give the same events other than KEY_NONE and leave the same shift and
\* ctrl flags.
C38_AltNeverInfluencesOutput ==
    /\ kb_twin.out1 = kb_twin.out2
    /\ shift_pressed = kb_twin.shift
    /\ ctrl_pressed = kb_twin.ctrl

C38_Witness ==
    /\ alt_pressed
    /\ ~kb_twin.alt
    /\ ctrl_pressed
    /\ kb_scancode = 30
    /\ kb_twin.out1 = <<1>>

====
